---- MODULE Spec2Model ----
(***************************************************************************)
(* OBS-Indicator: an overlay that draws animated status dots for the       *)
(* recording and the replay buffer of the host application.                *)
(*                                                                         *)
(* src/OBSIndicator.py is the current variant: a host thread (script_load, *)
(* script_update, event_handler, _send_initial_state, script_unload) emits *)
(* queued Qt signals to an OverlayWindow that lives on a render thread     *)
(* (OverlayApp.run), whose event loop runs the signal handlers, the two    *)
(* timers (update_animations, _update_geometry) and paintEvent.            *)
(*                                                                         *)
(* Numbers.  Python floats are modelled in fixed point: an animated value  *)
(* is an integer count of 1/ONE, a coordinate an integer count of 1/PX of  *)
(* a pixel, a time an integer count of tenths of a second.  Products are   *)
(* truncated toward zero.                                                  *)
(***************************************************************************)
EXTENDS Integers, Sequences, FiniteSets, TLC

\* ------------------------------------------------------------------------
\* Bounds of the model
\* ------------------------------------------------------------------------
\* Spec: handler runs and ticks of the window's event loop
MaxEvents == 2
MaxTicks == 3
\* the latest reading of the clock, in tenths of a second
MaxTime == 8
\* SpecBridge: host events, settings updates and runs of _send_initial_state,
\* all together
MaxHostCalls == 2
\* SpecAV: calls of AnimatedValue.update on one value
MaxCalls == 32
\* SpecClose: handler runs, ticks, settings updates and screen changes
\* before the window closes, all together
MaxOpenOps == 3

\* the tkinter variant: frontend events, calls of script_update, the time a
\* run of saves lasts and the time a run of script_update calls lasts, both
\* in units of UPDATE_MS
MaxLegacyEvents == 2
MaxScriptUpdates == 2
MaxLegacyTime == 55
MaxLoops == 2

\* ticks given to one movement: the longest one across a full-HD screen
\* takes this many
MaxMoveTicks == 51

\* ------------------------------------------------------------------------
\* Fixed point
\* ------------------------------------------------------------------------
ONE == 100 * 100
PX == 10 * 100

Abs(n) == IF n < 0 THEN -n ELSE n

\* (d * num) / den, truncated toward zero
MulDiv(d, num, den) ==
    IF d >= 0 THEN (d * num) \div den ELSE -(((-d) * num) \div den)

\* float(b) for a bool b
BoolToFloat(b) == IF b THEN ONE ELSE 0

\* ------------------------------------------------------------------------
\* Program constants
\* ------------------------------------------------------------------------
\* Animation.SPEED = 0.15, as a percentage
SPEED == 15
\* the flash runs at SPEED * 4.0 while its target is 1.0
FLASH_SPEED_MULTIPLIER == 4
\* Animation.SNAP_THRESHOLD = 0.01
SNAP_THRESHOLD == ONE \div 100
\* Animation.POSITION_SNAP_THRESHOLD = 0.5 (pixels)
POSITION_SNAP_THRESHOLD == PX \div 2
\* Draw.DIM_OPACITY = 0.3
DIM_OPACITY == (3 * ONE) \div 10

Corners == {"top-left", "top-right", "bottom-left", "bottom-right", "off"}
OFF == "off"

\* DEFAULT_SETTINGS, restricted to the keys that decide state; durations in
\* tenths of a second
DEFAULT_SETTINGS ==
    [ corner_rec |-> "top-right", corner_buf |-> "top-right",
      size |-> 10, margin |-> 10, opacity |-> 50,
      bg_opacity |-> 50, bg_size_percent |-> 300,
      fade_effect |-> TRUE, smooth_position |-> TRUE,
      animate_pause |-> TRUE, animate_checkmark |-> TRUE,
      checkmark_duration |-> 15,
      flash_on_save |-> FALSE, flash_duration |-> 2,
      rec_border_enabled |-> FALSE, rec_pause_border_enabled |-> TRUE,
      buf_border_enabled |-> FALSE, buf_save_border_enabled |-> TRUE,
      border_width |-> 5 ]

\* ------------------------------------------------------------------------
\* Colours. A Python int holding a packed 32-bit colour is kept as its top
\* byte and its low 24 bits, a 24-bit RGB value as a plain number.
\* ------------------------------------------------------------------------
PackedColor(top, low) == [top |-> top, low |-> low]

\* n & 0xFF, (n >> 8) & 0xFF and (n >> 16) & 0xFF of a number below 2^24
Byte0(n) == n % 256
Byte1(n) == (n \div 256) % 256
Byte2(n) == (n \div (256 * 256)) % 256

\* the channels left where they are
obs_color_unswapped(obs_color_arg) == obs_color_arg.low

\* obs_color_to_rgb: ((c & 0xFF) << 16) | (c & 0xFF00) | ((c >> 16) & 0xFF)
obs_color_to_rgb(obs_color_arg) ==
    Byte0(obs_color_arg.low) * (256 * 256)
    + Byte1(obs_color_arg.low) * 256
    + Byte2(obs_color_arg.low)

\* the packed colour without the 0xFF << 24
rgb_to_obs_color_no_alpha(rgb_color_arg) ==
    PackedColor(0, Byte0(rgb_color_arg) * (256 * 256)
                   + Byte1(rgb_color_arg) * 256 + Byte2(rgb_color_arg))

\* rgb_to_obs_color: (0xFF << 24) | ((c & 0xFF) << 16) | (c & 0xFF00)
\*                   | ((c >> 16) & 0xFF)
rgb_to_obs_color(rgb_color_arg) ==
    PackedColor(255, Byte0(rgb_color_arg) * (256 * 256)
                     + Byte1(rgb_color_arg) * 256 + Byte2(rgb_color_arg))

\* ------------------------------------------------------------------------
\* lerp, AnimatedValue
\* ------------------------------------------------------------------------
\* lerp(start, end, alpha) with alpha = pct / 100
lerp(start, end, pct) == start + MulDiv(end - start, pct, 100)

AnimatedValue(c, t) == [current |-> c, target |-> t]

\* AnimatedValue.set_target(new_target), immediate = False
set_target(av, new_target) == [av EXCEPT !.target = new_target]

\* the value AnimatedValue.update(speed, enabled) returns
update_returns(av) == av.current # av.target

\* update without the snap below SNAP_THRESHOLD
update_never_snaps(av, speed, enabled) ==
    IF av.current = av.target THEN av
    ELSE IF ~enabled THEN [av EXCEPT !.current = av.target]
    ELSE [av EXCEPT !.current = lerp(av.current, av.target, speed)]

\* the AnimatedValue after update(speed, enabled)
update(av, speed, enabled) ==
    IF av.current = av.target THEN av
    ELSE IF ~enabled \/ Abs(av.current - av.target) < SNAP_THRESHOLD
         THEN [av EXCEPT !.current = av.target]
         ELSE [av EXCEPT !.current = lerp(av.current, av.target, speed)]

\* ------------------------------------------------------------------------
\* State
\* ------------------------------------------------------------------------
VARIABLES
    \* module globals (host thread)
    HAS_PYSIDE,              \* the PySide2 import succeeded
    module_state,            \* "importing", "loaded", "raised"
    overlay_app,             \* global overlay_app is not None
    gui_thread,              \* global gui_thread is not None
    callback_registered,     \* event_handler is registered with the host
    timer_added,             \* _send_initial_state is on a host timer
    host_pc,                 \* "start", "idle" (loaded), "join" (inside
                             \* script_unload), "done" (unloaded)
    join_result,             \* how gui_thread.join(THREAD_JOIN) ended
    \* OverlayApp, SignalEmitter and the render thread
    app_overlay,             \* OverlayApp.overlay is not None
    connected,               \* the emitter's signals are connected to the window
    gui_pc,                  \* "none", "started", "constructed", "exec",
                             \* "exited": the render thread in OverlayApp.run
    queue,                   \* the render thread's posted Qt events, oldest first
    \* OverlayWindow
    settings, closing, positions_cache, current_screen_geometry,
    rec_state, buf_state, animation_timer, geometry_timer,
    update_called,           \* the handler that ran last called self.update()
    painted,                 \* what the handler that ran last drew
    \* environment
    now,                     \* time.monotonic()
    screen,                  \* QGuiApplication.primaryScreen() and its geometry
    \* histories
    delivered,               \* the lifecycle events given to event_handler
    handled,                 \* their places in `delivered`, as their handlers ran
    stale,                   \* the handlers entered while closing was set
    \* what is left of the bounds: signal handler runs, ticks, settings
    \* updates, screen changes, runs of _send_initial_state
    events_left, ticks_left, settings_left, screen_left, sync_left,
    \* one AnimatedValue on its own: the value, the current it started from,
    \* what the last update() returned, the calls of update() so far
    av, av_start, av_ret, av_calls,
    \* one colour on its way between the script and the host: the conversions
    \* applied so far, the RGB value, the host's packed value, the two as they
    \* were at the start
    color_pc, rgb_color, obs_color, color_in,
    \* OBS-Indicator-1-0-2-Ru.py, the variant built on tkinter
    STATUS,                  \* the global STATUS: [record, buffer]
    CORNER,                  \* the global CORNER
    OFF_global,              \* the global OFF
    tk,                      \* the overlay thread: where it is in _loop
                             \* (pc), the label's image, the root window's
                             \* geometry, when the next _loop is due
    after_hide,              \* the times at which a root.after(...,
                             \* _hide_buffer) callback is due
    update_call,             \* the host thread inside script_update: where
                             \* (pc) and its local c
    legacy_now,              \* the time, in units of UPDATE_MS
    last_save,               \* when the last REPLAY_BUFFER_SAVED arrived
    legacy_left              \* what is left of the bounds: events, calls of
                             \* script_update, steps of the clock

hostVars == <<HAS_PYSIDE, module_state, overlay_app, gui_thread,
              callback_registered, timer_added, host_pc, join_result>>
guiVars == <<app_overlay, connected, gui_pc, queue>>
winVars == <<settings, closing, positions_cache, current_screen_geometry,
             rec_state, buf_state, animation_timer, geometry_timer,
             update_called, painted>>
envVars == <<now, screen>>
histVars == <<delivered, handled, stale>>
leftVars == <<events_left, ticks_left, settings_left, screen_left, sync_left>>
avVars == <<av, av_start, av_ret, av_calls>>
colorVars == <<color_pc, rgb_color, obs_color, color_in>>
legacyVars == <<STATUS, CORNER, OFF_global, tk, after_hide, update_call,
                legacy_now, last_save, legacy_left>>
vars == <<hostVars, guiVars, winVars, envVars, histVars, leftVars, avVars,
          colorVars, legacyVars>>

\* ------------------------------------------------------------------------
\* Points, geometry, the position cache
\* ------------------------------------------------------------------------
\* QPointF(), in 1/PX of a pixel
Pt(x, y) == [x |-> x, y |-> y]
NullPoint == Pt(0, 0)
isNull(p) == p.x = 0 /\ p.y = 0

\* QPointF.toPoint(): each coordinate rounded to the nearest pixel
toPoint(p) == Pt((p.x + PX \div 2) \div PX, (p.y + PX \div 2) \div PX)

\* QRect() is the invalid rectangle
InvalidRect == [w |-> 0, h |-> 0]
isValid(r) == r.w > 0 /\ r.h > 0

NoScreen == [w |-> -1, h |-> -1]

CacheKeys == (Corners \ {OFF}) \X {0, 1}
EmptyCache == [k \in CacheKeys |-> <<>>]

\* the background as large as the indicator itself
bg_size_ignores_percent(s) == s.size

\* int(size * bg_size_percent / 100)
bg_size_of(s) == (s.size * s.bg_size_percent) \div 100

\* _calculate_position, the uncached computation (pixels)
fresh_position(s, geom, corner, index) ==
    LET bg_size == bg_size_of(s)
        radius == bg_size \div 2
        offset == index * (bg_size + s.margin)
        left == s.margin + radius + offset
        right == geom.w - s.margin - radius - offset
        top == s.margin + radius
        bottom == geom.h - s.margin - radius
    IN  CASE corner = "top-left" -> Pt(left, top)
          [] corner = "top-right" -> Pt(right, top)
          [] corner = "bottom-left" -> Pt(left, bottom)
          [] OTHER -> Pt(right, bottom)

\* what _calculate_position returns: <<>> for None, <<p>> for a QPoint p
\* (a QPoint is false when it is null)
_calculate_position(s, geom, cache, corner, index) ==
    IF ~isValid(geom) \/ corner = OFF THEN <<>>
    ELSE IF cache[<<corner, index>>] # <<>> THEN cache[<<corner, index>>]
    ELSE <<fresh_position(s, geom, corner, index)>>

\* positions_cache after that call
cache_after(s, geom, cache, corner, index) ==
    IF ~isValid(geom) \/ corner = OFF THEN cache
    ELSE IF cache[<<corner, index>>] # <<>> THEN cache
    ELSE LET pos == fresh_position(s, geom, corner, index)
         IN  IF isNull(pos) THEN cache
             ELSE [cache EXCEPT ![<<corner, index>>] = <<pos>>]

\* ------------------------------------------------------------------------
\* RecordingState, BufferState
\* ------------------------------------------------------------------------
RecordingState ==
    [ active |-> FALSE, paused |-> FALSE,
      visibility |-> AnimatedValue(0, 0),
      pause_icon |-> AnimatedValue(0, 0),
      border_width |-> AnimatedValue(0, 0),
      position |-> NullPoint, target_position |-> NullPoint ]

BufferState ==
    [ active |-> FALSE, saved |-> FALSE, saved_time |-> 0,
      visibility |-> AnimatedValue(0, 0),
      checkmark_icon |-> AnimatedValue(0, 0),
      dim_effect |-> AnimatedValue(ONE, ONE),
      flash_effect |-> AnimatedValue(0, 0), flash_start_time |-> 0,
      border_width |-> AnimatedValue(0, 0),
      save_border_width |-> AnimatedValue(0, 0),
      position |-> NullPoint, target_position |-> NullPoint ]

NothingPainted ==
    [ borders |-> {}, flash |-> FALSE,
      rec |-> {}, rec_pos |-> NullPoint,
      buf |-> {}, buf_pos |-> NullPoint ]

\* ------------------------------------------------------------------------
\* update_animations, piece by piece
\* ------------------------------------------------------------------------
\* the checkmark taken down as soon as the duration is reached
checkmark_expired_when_reached(buf, s, t) ==
    buf.saved /\ t - buf.saved_time >= s.checkmark_duration

\* a checkmark that stays up for good
checkmark_never_expires(buf, s, t) == FALSE

\* time.monotonic() - saved_time > settings["checkmark_duration"]
checkmark_expired(buf, s, t) ==
    buf.saved /\ t - buf.saved_time > s.checkmark_duration

\* a target that is only ever raised: a stop leaves the old target queued
rec_targets_stale(rec) ==
    [rec EXCEPT !.visibility = IF rec.active THEN set_target(@, ONE) ELSE @,
                !.pause_icon = set_target(@, BoolToFloat(rec.paused))]

\* "Update targets": visibility, pause icon, expiry of saved, checkmark, dim
rec_targets(rec) ==
    [rec EXCEPT !.visibility = set_target(@, BoolToFloat(rec.active)),
                !.pause_icon = set_target(@, BoolToFloat(rec.paused))]

\* the buffer indicator dimmed for as long as recording is active
dim_target_while_active(rec) == IF rec.active THEN DIM_OPACITY ELSE ONE

dim_target(rec) == IF rec.active /\ rec.paused THEN DIM_OPACITY ELSE ONE

buf_targets(buf, rec, s, t) ==
    LET b1 == IF checkmark_expired(buf, s, t)
              THEN [buf EXCEPT !.saved = FALSE, !.saved_time = 0]
              ELSE buf
    IN  [b1 EXCEPT !.visibility = set_target(@, BoolToFloat(b1.active)),
                   !.checkmark_icon = set_target(@, BoolToFloat(b1.saved)),
                   !.dim_effect = set_target(@, dim_target(rec))]

\* the flash forgotten as soon as its time is up, however bright it still is
flash_reset_at_once(buf, s, t) ==
    IF buf.flash_start_time > 0 /\ t - buf.flash_start_time > s.flash_duration
    THEN [buf EXCEPT !.flash_effect = set_target(@, 0),
                     !.flash_start_time = 0]
    ELSE buf

\* the flash ends flash_duration after it started
flash_timeout(buf, s, t) ==
    IF buf.flash_start_time > 0 /\ t - buf.flash_start_time > s.flash_duration
    THEN LET b1 == [buf EXCEPT !.flash_effect = set_target(@, 0)]
         IN  IF b1.flash_effect.current < SNAP_THRESHOLD
             THEN [b1 EXCEPT !.flash_start_time = 0]
             ELSE b1
    ELSE buf

\* "Border logic"
rec_border_target(rec, s) ==
    LET rec_border_on == s.rec_border_enabled /\ rec.active
        pause_border_on == ~s.rec_border_enabled /\ s.rec_pause_border_enabled
                           /\ rec.active /\ rec.paused
    IN  IF rec_border_on \/ pause_border_on THEN s.border_width * ONE ELSE 0

buf_border_target(buf, s) ==
    IF s.buf_border_enabled /\ buf.active THEN s.border_width * ONE ELSE 0

\* the save border shown on top of an enabled buffer border
save_border_beside_main(buf, s) ==
    IF s.buf_save_border_enabled /\ buf.saved
    THEN s.border_width * ONE ELSE 0

save_border_target(buf, s) ==
    IF ~s.buf_border_enabled /\ s.buf_save_border_enabled /\ buf.saved
    THEN s.border_width * ONE ELSE 0

border_targets_rec(rec, s) ==
    [rec EXCEPT !.border_width = set_target(@, rec_border_target(rec, s))]

border_targets_buf(buf, s) ==
    [buf EXCEPT !.border_width = set_target(@, buf_border_target(buf, s)),
                !.save_border_width = set_target(@, save_border_target(buf, s))]

\* both indicators in the first slot
slot_index_always_first(name, rec_active, s) == 0

\* the slot _update_indicator_position asks for
slot_index(name, rec_active, s) ==
    IF name = "buf" /\ rec_active /\ s.corner_rec = s.corner_buf
       /\ s.corner_rec # OFF
    THEN 1 ELSE 0

corner_of(name, s) == IF name = "rec" THEN s.corner_rec ELSE s.corner_buf

\* _update_indicator_position: the indicator's state afterwards
_update_indicator_position(name, state, rec_active, s, geom, cache) ==
    LET corner == corner_of(name, s)
        got == _calculate_position(s, geom, cache, corner,
                                   slot_index(name, rec_active, s))
    IN  IF corner = OFF THEN [state EXCEPT !.target_position = NullPoint]
        ELSE IF got = <<>> \/ isNull(got[1]) THEN state
        ELSE LET target_pos == Pt(got[1].x * PX, got[1].y * PX)
             IN  IF state.target_position = target_pos THEN state
                 ELSE [state EXCEPT
                         !.target_position = target_pos,
                         !.position = IF isNull(@) THEN target_pos ELSE @]

\* the movement without its snap to the target
position_never_snaps(state, s) ==
    IF state.position = state.target_position THEN state.position
    ELSE IF ~s.smooth_position \/ isNull(state.target_position)
         THEN state.target_position
    ELSE Pt(lerp(state.position.x, state.target_position.x, SPEED),
            lerp(state.position.y, state.target_position.y, SPEED))

\* _update_position_animation: the position afterwards
_update_position_animation(state, s) ==
    IF state.position = state.target_position THEN state.position
    ELSE IF ~s.smooth_position \/ isNull(state.target_position)
         THEN state.target_position
    ELSE LET new_x == lerp(state.position.x, state.target_position.x, SPEED)
             new_y == lerp(state.position.y, state.target_position.y, SPEED)
         IN  IF Abs(new_x - state.target_position.x) < POSITION_SNAP_THRESHOLD
                /\ Abs(new_y - state.target_position.y) < POSITION_SNAP_THRESHOLD
             THEN state.target_position
             ELSE Pt(new_x, new_y)

\* what _update_position_animation returns
position_returns(state, s) ==
    IF state.position = state.target_position THEN FALSE
    ELSE IF ~s.smooth_position \/ isNull(state.target_position) THEN TRUE
    ELSE _update_position_animation(state, s) # state.position

\* a rising flash driven at 120% of the remaining distance per tick
flash_speed_overshoots(buf) ==
    IF buf.flash_effect.target = ONE
    THEN SPEED * FLASH_SPEED_MULTIPLIER * 2
    ELSE SPEED

flash_speed(buf) ==
    IF buf.flash_effect.target = ONE THEN SPEED * FLASH_SPEED_MULTIPLIER
    ELSE SPEED

\* the fade toggle ignored for the recording indicator
animate_rec_always_fades(rec, s) ==
    [rec EXCEPT !.visibility = update(@, SPEED, TRUE),
                !.position = _update_position_animation(rec, s),
                !.pause_icon = update(@, SPEED, s.animate_pause),
                !.border_width = update(@, SPEED, TRUE)]

\* "Update animated values": the two states afterwards
animate_rec(rec, s) ==
    [rec EXCEPT !.visibility = update(@, SPEED, s.fade_effect),
                !.position = _update_position_animation(rec, s),
                !.pause_icon = update(@, SPEED, s.animate_pause),
                !.border_width = update(@, SPEED, TRUE)]

animate_buf(buf, s) ==
    [buf EXCEPT !.visibility = update(@, SPEED, s.fade_effect),
                !.position = _update_position_animation(buf, s),
                !.checkmark_icon = update(@, SPEED, s.animate_checkmark),
                !.dim_effect = update(@, SPEED, s.fade_effect),
                !.flash_effect = update(@, flash_speed(buf), TRUE),
                !.border_width = update(@, SPEED, TRUE),
                !.save_border_width = update(@, SPEED, TRUE)]

\* the value of `updated` at the end of the tick
tick_updated(rec, buf, s) ==
    \/ update_returns(rec.visibility) \/ position_returns(rec, s)
    \/ update_returns(buf.visibility) \/ position_returns(buf, s)
    \/ update_returns(rec.pause_icon) \/ update_returns(buf.checkmark_icon)
    \/ update_returns(buf.dim_effect) \/ update_returns(buf.flash_effect)
    \/ update_returns(rec.border_width) \/ update_returns(buf.border_width)
    \/ update_returns(buf.save_border_width)

\* one whole tick with closing = False: the states before "Update animated
\* values" (rec, buf), after it (rec_out, buf_out), the cache and `updated`
tick(rec0, buf0, s, geom, cache0, t) ==
    LET rec1 == border_targets_rec(rec_targets(rec0), s)
        buf1 == border_targets_buf(
                    flash_timeout(buf_targets(buf0, rec0, s, t), s, t), s)
        rec2 == _update_indicator_position("rec", rec1, rec1.active, s, geom,
                                           cache0)
        cache1 == cache_after(s, geom, cache0, s.corner_rec,
                              slot_index("rec", rec1.active, s))
        buf2 == _update_indicator_position("buf", buf1, rec1.active, s, geom,
                                           cache1)
        cache2 == IF s.corner_buf = OFF THEN cache1
                  ELSE cache_after(s, geom, cache1, s.corner_buf,
                                   slot_index("buf", rec1.active, s))
    IN  [ rec |-> animate_rec(rec2, s), buf |-> animate_buf(buf2, s),
          cache |-> cache2, updated |-> tick_updated(rec2, buf2, s) ]

\* ------------------------------------------------------------------------
\* Painting: which primitives a paintEvent draws
\* ------------------------------------------------------------------------
\* int(255 * x * pct / 100.0) for an animated value x
alpha255(x, pct) == (255 * x * pct) \div (ONE * 100)

cube(x) == MulDiv(x, (x * x) \div ONE, ONE)

ease_in_out_cubic(t) ==
    IF 2 * t < ONE THEN cube(2 * t) \div 2
    ELSE (cube(2 * t - 2 * ONE) + 2 * ONE) \div 2

\* _draw_shape draws unless the colour's alpha is below 1
_draw_background(s, anim_value) ==
    bg_size_of(s) > 0 /\ alpha255(anim_value, s.bg_opacity) >= 1

_draw_indicator(s, master_anim, opacity_multiplier) ==
    s.size > 0
    /\ alpha255(MulDiv(master_anim, opacity_multiplier, ONE), s.opacity) >= 1

_draw_pause_icon(s, icon_progress, master_anim) ==
    s.size > 0
    /\ alpha255(MulDiv(master_anim, icon_progress, ONE), s.opacity) >= 1

_draw_checkmark(s, icon_progress, master_anim, dim_factor) ==
    alpha255(MulDiv(MulDiv(master_anim, dim_factor, ONE),
                    ease_in_out_cubic(icon_progress), ONE), s.opacity) >= 1

\* _paint_indicator for the recording indicator: the primitives drawn
_paint_indicator_rec(rec, s) ==
    IF rec.visibility.current < SNAP_THRESHOLD THEN {}
    ELSE LET master_anim == rec.visibility.current
             pause_progress == rec.pause_icon.current
             main_opacity == ONE - pause_progress
         IN  {d \in {"background"} : _draw_background(s, master_anim)}
             \cup {d \in {"pause_icon"} :
                     pause_progress > SNAP_THRESHOLD
                     /\ _draw_pause_icon(s, pause_progress, master_anim)}
             \cup {d \in {"indicator"} :
                     main_opacity > SNAP_THRESHOLD
                     /\ _draw_indicator(s, master_anim, main_opacity)}

\* _paint_indicator for the buffer indicator
_paint_indicator_buf(buf, s) ==
    IF buf.visibility.current < SNAP_THRESHOLD THEN {}
    ELSE LET master_anim == buf.visibility.current
             dim_factor == buf.dim_effect.current
             checkmark_progress == buf.checkmark_icon.current
             main_opacity == ONE - checkmark_progress
         IN  {d \in {"background"} :
                 _draw_background(s, MulDiv(master_anim, dim_factor, ONE))}
             \cup {d \in {"indicator"} :
                     main_opacity > SNAP_THRESHOLD
                     /\ _draw_indicator(s, master_anim,
                                        MulDiv(main_opacity, dim_factor, ONE))}
             \cup {d \in {"checkmark"} :
                     checkmark_progress > SNAP_THRESHOLD
                     /\ _draw_checkmark(s, checkmark_progress, master_anim,
                                        dim_factor)}

\* _draw_border draws unless width < 1
border_drawn(width) == width.current > SNAP_THRESHOLD /\ width.current >= ONE

_paint_borders(rec, buf) ==
    {b \in {"rec"} : border_drawn(rec.border_width)}
    \cup {b \in {"buf"} : border_drawn(buf.border_width)}
    \cup {b \in {"save"} : border_drawn(buf.save_border_width)}

_paint_flash(buf) == ~(buf.flash_effect.current < SNAP_THRESHOLD)

\* everything one paintEvent draws with closing = False
paint(rec, buf, s) ==
    LET r == _paint_indicator_rec(rec, s)
        b == _paint_indicator_buf(buf, s)
    IN  [ borders |-> _paint_borders(rec, buf), flash |-> _paint_flash(buf),
          rec |-> r,
          rec_pos |-> IF r = {} THEN NullPoint ELSE toPoint(rec.position),
          buf |-> b,
          buf_pos |-> IF b = {} THEN NullPoint ELSE toPoint(buf.position) ]

\* ------------------------------------------------------------------------
\* OverlayWindow: the handlers, as changes of the window's own state
\* ------------------------------------------------------------------------
\* a missing screen taken as a change: the stored geometry is dropped
geometry_check_drops_geometry(scr, geom, cache) ==
    IF scr = geom
    THEN [geom |-> geom, cache |-> cache, updated |-> FALSE]
    ELSE [geom |-> IF scr = NoScreen THEN InvalidRect ELSE scr,
          cache |-> EmptyCache, updated |-> TRUE]

\* _update_geometry with closing = False: geometry, cache, whether update()
\* was called
geometry_check(scr, geom, cache) ==
    IF scr = NoScreen \/ scr = geom
    THEN [geom |-> geom, cache |-> cache, updated |-> FALSE]
    ELSE [geom |-> scr, cache |-> EmptyCache, updated |-> TRUE]

\* the handler without its closing guard
on_rec_status_changed_unguarded(active, paused) ==
    /\ rec_state' = [rec_state EXCEPT !.active = active, !.paused = paused]
    /\ update_called' = FALSE
    /\ painted' = NothingPainted
    /\ UNCHANGED <<settings, closing, positions_cache,
                   current_screen_geometry, buf_state, animation_timer,
                   geometry_timer>>

on_rec_status_changed(active, paused) ==
    /\ IF closing THEN UNCHANGED rec_state
       ELSE rec_state' = [rec_state EXCEPT !.active = active,
                                           !.paused = paused]
    /\ update_called' = FALSE
    /\ painted' = NothingPainted
    /\ UNCHANGED <<settings, closing, positions_cache,
                   current_screen_geometry, buf_state, animation_timer,
                   geometry_timer>>

\* a save that starts the flash whatever flash_on_save says
buf_status_always_flashes(buf, active, saved, s, t) ==
    IF saved
    THEN [buf EXCEPT !.active = TRUE, !.saved = TRUE, !.saved_time = t,
                     !.flash_start_time = t,
                     !.flash_effect = set_target(@, ONE)]
    ELSE [buf EXCEPT !.active = active]

\* a save that keeps the time of the first save while the checkmark is up
buf_status_keeps_first_stamp(buf, active, saved, s, t) ==
    IF saved
    THEN LET b1 == [buf EXCEPT !.active = TRUE, !.saved = TRUE,
                               !.saved_time = IF buf.saved THEN @ ELSE t]
         IN  IF s.flash_on_save
             THEN [b1 EXCEPT !.flash_start_time = t,
                             !.flash_effect = set_target(@, ONE)]
             ELSE b1
    ELSE [buf EXCEPT !.active = active]

\* buf_state after on_buf_status_changed with closing = False
buf_status(buf, active, saved, s, t) ==
    IF saved
    THEN LET b1 == [buf EXCEPT !.active = TRUE, !.saved = TRUE,
                               !.saved_time = t]
         IN  IF s.flash_on_save
             THEN [b1 EXCEPT !.flash_start_time = t,
                             !.flash_effect = set_target(@, ONE)]
             ELSE b1
    ELSE [buf EXCEPT !.active = active]

on_buf_status_changed(active, saved) ==
    /\ IF closing THEN UNCHANGED buf_state
       ELSE buf_state' = buf_status(buf_state, active, saved, settings, now)
    /\ update_called' = FALSE
    /\ painted' = NothingPainted
    /\ UNCHANGED <<settings, closing, positions_cache,
                   current_screen_geometry, rec_state, animation_timer,
                   geometry_timer>>

\* new settings installed over the positions cached for the old ones
on_settings_updated_keeps_cache(new_settings) ==
    /\ IF closing
       THEN /\ UNCHANGED <<settings, positions_cache, current_screen_geometry>>
            /\ update_called' = FALSE
       ELSE LET g == geometry_check(screen, current_screen_geometry,
                                    positions_cache)
            IN  /\ settings' = new_settings
                /\ positions_cache' = g.cache
                /\ current_screen_geometry' = g.geom
                /\ update_called' = TRUE
    /\ painted' = NothingPainted
    /\ UNCHANGED <<closing, rec_state, buf_state, animation_timer,
                   geometry_timer>>

on_settings_updated(new_settings) ==
    /\ IF closing
       THEN /\ UNCHANGED <<settings, positions_cache, current_screen_geometry>>
            /\ update_called' = FALSE
       ELSE LET g == geometry_check(screen, current_screen_geometry,
                                    EmptyCache)
            IN  /\ settings' = new_settings
                /\ positions_cache' = g.cache
                /\ current_screen_geometry' = g.geom
                /\ update_called' = TRUE
    /\ painted' = NothingPainted
    /\ UNCHANGED <<closing, rec_state, buf_state, animation_timer,
                   geometry_timer>>

_update_geometry ==
    /\ IF closing
       THEN /\ UNCHANGED <<positions_cache, current_screen_geometry>>
            /\ update_called' = FALSE
       ELSE LET g == geometry_check(screen, current_screen_geometry,
                                    positions_cache)
            IN  /\ positions_cache' = g.cache
                /\ current_screen_geometry' = g.geom
                /\ update_called' = g.updated
    /\ painted' = NothingPainted
    /\ UNCHANGED <<settings, closing, rec_state, buf_state, animation_timer,
                   geometry_timer>>

update_animations ==
    /\ IF closing
       THEN /\ UNCHANGED <<rec_state, buf_state, positions_cache>>
            /\ update_called' = FALSE
       ELSE LET r == tick(rec_state, buf_state, settings,
                          current_screen_geometry, positions_cache, now)
            IN  /\ rec_state' = r.rec
                /\ buf_state' = r.buf
                /\ positions_cache' = r.cache
                /\ update_called' = r.updated
    /\ painted' = NothingPainted
    /\ UNCHANGED <<settings, closing, current_screen_geometry,
                   animation_timer, geometry_timer>>

paintEvent ==
    /\ painted' = IF closing THEN NothingPainted
                  ELSE paint(rec_state, buf_state, settings)
    /\ update_called' = FALSE
    /\ UNCHANGED <<settings, closing, positions_cache,
                   current_screen_geometry, rec_state, buf_state,
                   animation_timer, geometry_timer>>

closeEvent ==
    /\ closing' = TRUE
    /\ animation_timer' = FALSE
    /\ geometry_timer' = FALSE
    /\ update_called' = FALSE
    /\ painted' = NothingPainted
    /\ UNCHANGED <<settings, positions_cache, current_screen_geometry,
                   rec_state, buf_state>>

\* ------------------------------------------------------------------------
\* Inputs
\* ------------------------------------------------------------------------
\* the settings the user chooses among: the defaults; the defaults with the
\* shortest durations the property panel allows, the flash on and the buffer
\* indicator in another corner; every animation toggle off, the recording
\* indicator off and the main borders on
QuickSettings ==
    [DEFAULT_SETTINGS EXCEPT !.checkmark_duration = 5, !.flash_duration = 1,
                             !.flash_on_save = TRUE,
                             !.corner_buf = "bottom-left"]

SnapSettings ==
    [DEFAULT_SETTINGS EXCEPT !.fade_effect = FALSE, !.smooth_position = FALSE,
                             !.animate_pause = FALSE,
                             !.animate_checkmark = FALSE,
                             !.corner_rec = OFF, !.checkmark_duration = 5,
                             !.rec_border_enabled = TRUE,
                             !.buf_border_enabled = TRUE]

SettingsChoices == {DEFAULT_SETTINGS, QuickSettings, SnapSettings}

\* the defaults under every combination of the four animation toggles
ToggleSettings ==
    { [DEFAULT_SETTINGS EXCEPT !.fade_effect = f, !.smooth_position = m,
                               !.animate_pause = p, !.animate_checkmark = c] :
        f \in BOOLEAN, m \in BOOLEAN, p \in BOOLEAN, c \in BOOLEAN }

FullHD == [w |-> 1920, h |-> 1080]
Screens == {FullHD, [w |-> 1280, h |-> 720]}

\* the (active, paused) and (active, saved) tuples the host thread emits
RecSignals == {<<TRUE, FALSE>>, <<FALSE, FALSE>>, <<TRUE, TRUE>>}
BufSignals == {<<TRUE, FALSE>>, <<FALSE, FALSE>>, <<TRUE, TRUE>>}

\* ------------------------------------------------------------------------
\* OBS-Indicator-1-0-2-Ru.py: constants and the state after the module is
\* loaded and Overlay() has built its window
\* ------------------------------------------------------------------------
RED_DOT_PAUSE == 5
UPDATE_MS == 100
MARGIN == 5
SIZE == <<30, 30>>

\* root.after(RED_DOT_PAUSE * 1000, _hide_buffer), in units of UPDATE_MS
HideDelay == (RED_DOT_PAUSE * 1000) \div UPDATE_MS

NoGeometry == <<>>

\* the budgets of a run in which nothing of this variant takes a step
NothingLeft == [events |-> 0, updates |-> 0, ticks |-> 0]

\* module level and Overlay.__init__ up to its call of _loop
LegacyLoaded ==
    /\ STATUS = [record |-> FALSE, buffer |-> FALSE]
    /\ CORNER = "top-left"
    /\ OFF_global = FALSE
    /\ tk = [pc |-> "idle", image |-> "", geometry |-> NoGeometry,
             next_loop |-> 0]
    /\ after_hide = {}
    /\ update_call = [pc |-> "idle", c |-> ""]
    /\ legacy_now = 0
    /\ last_save = 0

LegacyIdle == LegacyLoaded /\ legacy_left = NothingLeft

\* ------------------------------------------------------------------------
\* The steps of the render thread's event loop, on a constructed window.
\* The bounds count the steps taken while the window is open: on a closed
\* window every handler returns at once.
\* ------------------------------------------------------------------------
\* no colour is being converted
ColorIdle ==
    /\ color_pc = "idle" /\ rgb_color = 0 /\ obs_color = PackedColor(0, 0)
    /\ color_in = [rgb |-> 0, obs |-> PackedColor(0, 0)]

AvIdle ==
    /\ av = AnimatedValue(0, 0) /\ av_start = 0
    /\ av_ret = FALSE /\ av_calls = 0

HostLoaded ==
    /\ HAS_PYSIDE = TRUE /\ module_state = "loaded"
    /\ overlay_app = TRUE /\ gui_thread = TRUE
    /\ callback_registered = TRUE /\ timer_added = TRUE
    /\ host_pc = "idle" /\ join_result = "none"

HistoryEmpty == delivered = <<>> /\ handled = <<>> /\ stale = {}

\* the window as OverlayWindow.__init__ leaves it
WindowConstructed(initial_settings) ==
    /\ settings = initial_settings
    /\ closing = FALSE
    /\ positions_cache = EmptyCache
    /\ current_screen_geometry =
           geometry_check(screen, InvalidRect, EmptyCache).geom
    /\ rec_state = RecordingState
    /\ buf_state = BufferState
    /\ animation_timer = TRUE
    /\ geometry_timer = TRUE
    /\ update_called = FALSE
    /\ painted = NothingPainted

\* the render thread inside app.exec_(), nothing posted yet
LoopRunning ==
    /\ HostLoaded
    /\ app_overlay = TRUE /\ connected = TRUE /\ gui_pc = "exec"
    /\ queue = <<>>
    /\ HistoryEmpty

Entered(handler) == stale' = IF closing THEN stale \cup {handler} ELSE stale

HandleRec ==
    /\ events_left > 0 \/ closing
    /\ \E sig \in RecSignals : on_rec_status_changed(sig[1], sig[2])
    /\ events_left' = IF closing THEN events_left ELSE events_left - 1
    /\ Entered("on_rec_status_changed")
    /\ UNCHANGED <<hostVars, guiVars, envVars, avVars, colorVars, legacyVars, delivered, handled,
                   ticks_left, settings_left, screen_left, sync_left>>

HandleBuf ==
    /\ events_left > 0 \/ closing
    /\ \E sig \in BufSignals : on_buf_status_changed(sig[1], sig[2])
    /\ events_left' = IF closing THEN events_left ELSE events_left - 1
    /\ Entered("on_buf_status_changed")
    /\ UNCHANGED <<hostVars, guiVars, envVars, avVars, colorVars, legacyVars, delivered, handled,
                   ticks_left, settings_left, screen_left, sync_left>>

HandleSettings ==
    /\ settings_left > 0 \/ closing
    /\ \E s \in SettingsChoices : on_settings_updated(s)
    /\ settings_left' = IF closing THEN settings_left ELSE settings_left - 1
    /\ Entered("on_settings_updated")
    /\ UNCHANGED <<hostVars, guiVars, envVars, avVars, colorVars, legacyVars, delivered, handled,
                   events_left, ticks_left, screen_left, sync_left>>

AnimationTimeout ==
    /\ ticks_left > 0 \/ closing
    /\ update_animations
    /\ ticks_left' = IF closing THEN ticks_left ELSE ticks_left - 1
    /\ Entered("update_animations")
    /\ UNCHANGED <<hostVars, guiVars, envVars, avVars, colorVars, legacyVars, delivered, handled,
                   events_left, settings_left, screen_left, sync_left>>

GeometryTimeout ==
    /\ _update_geometry
    /\ Entered("_update_geometry")
    /\ UNCHANGED <<hostVars, guiVars, envVars, avVars, colorVars, legacyVars, delivered, handled,
                   leftVars>>

Paint ==
    /\ paintEvent
    /\ Entered("paintEvent")
    /\ UNCHANGED <<hostVars, guiVars, envVars, avVars, colorVars, legacyVars, delivered, handled,
                   leftVars>>

Close ==
    /\ ~closing
    /\ closeEvent
    /\ UNCHANGED <<hostVars, guiVars, envVars, avVars, colorVars, legacyVars, histVars, leftVars>>

ClockAdvances ==
    /\ now < MaxTime
    /\ now' = now + 1
    /\ UNCHANGED <<hostVars, guiVars, winVars, screen, avVars, colorVars, legacyVars, histVars,
                   leftVars>>

ScreenChanges ==
    /\ screen_left > 0
    /\ screen' \in (Screens \cup {NoScreen}) \ {screen}
    /\ screen_left' = screen_left - 1
    /\ UNCHANGED <<hostVars, guiVars, winVars, now, avVars, colorVars, legacyVars, histVars,
                   events_left, ticks_left, settings_left, sync_left>>

\* ------------------------------------------------------------------------
\* Spec: signals and ticks on a window whose settings and screen stay put
\* ------------------------------------------------------------------------
Init ==
    /\ LoopRunning
    /\ AvIdle
    /\ ColorIdle
    /\ LegacyIdle
    /\ now = 1
    /\ screen \in {FullHD, NoScreen}
    /\ \E s \in SettingsChoices \cup ToggleSettings : WindowConstructed(s)
    /\ events_left = MaxEvents /\ ticks_left = MaxTicks
    /\ settings_left = 0 /\ screen_left = 0 /\ sync_left = 0

Next == HandleRec \/ HandleBuf \/ AnimationTimeout \/ Paint

Spec == Init /\ [][Next]_vars

\* ------------------------------------------------------------------------
\* Properties of Spec
\* ------------------------------------------------------------------------
TickRan == ticks_left' < ticks_left /\ ~closing

\* C2: at the end of every tick of update_animations each indicator's
\* visibility.target is 1.0 when its active flag is set and 0.0 when it is
\* not, and the tick itself leaves the active flags as the last handled
\* signal wrote them, so no earlier value of active survives as the target.
C2_TargetMirrorsActive ==
    [][TickRan =>
         /\ rec_state'.visibility.target = BoolToFloat(rec_state'.active)
         /\ buf_state'.visibility.target = BoolToFloat(buf_state'.active)
         /\ rec_state'.active = rec_state.active
         /\ buf_state'.active = buf_state.active]_vars

\* a stop handled after a start had begun to fade in: the tick after it has
\* turned the target back to 0.0 while the dot is still partly visible
C2_Witness ==
    /\ ~rec_state.active
    /\ rec_state.visibility.target = 0
    /\ rec_state.visibility.current > 0
    /\ rec_state.visibility.current < ONE

\* C9: a tick that runs with an effect's toggle off leaves that effect's
\* current value equal to its target: visibility and dim_effect under
\* fade_effect, pause_icon under animate_pause, checkmark_icon under
\* animate_checkmark, position under smooth_position.
C9_DisabledEffectSnaps ==
    [][TickRan =>
         /\ ~settings.fade_effect =>
              /\ rec_state'.visibility.current = rec_state'.visibility.target
              /\ buf_state'.visibility.current = buf_state'.visibility.target
              /\ buf_state'.dim_effect.current = buf_state'.dim_effect.target
         /\ ~settings.animate_pause =>
              rec_state'.pause_icon.current = rec_state'.pause_icon.target
         /\ ~settings.animate_checkmark =>
              buf_state'.checkmark_icon.current
                  = buf_state'.checkmark_icon.target
         /\ ~settings.smooth_position =>
              /\ rec_state'.position = rec_state'.target_position
              /\ buf_state'.position = buf_state'.target_position]_vars

\* with only the fade off, one tick has taken the visibility from 0.0 to 1.0
\* while the pause icon is still on its way
C9_Witness ==
    /\ ~settings.fade_effect /\ settings.animate_pause
    /\ ticks_left = MaxTicks - 1
    /\ rec_state.visibility.current = ONE
    /\ rec_state.pause_icon.current > 0
    /\ rec_state.pause_icon.current < ONE

\* C10: a paintEvent draws nothing for an indicator whose corner is "off".
C10_OffIsNotRendered ==
    /\ settings.corner_rec = OFF => painted.rec = {}
    /\ settings.corner_buf = OFF => painted.buf = {}

SharedCorner(s) == s.corner_rec = s.corner_buf /\ s.corner_rec # OFF

\* the distance between the first and the second slot of a corner
slot_width(s) == bg_size_of(s) + s.margin

\* C11: with both indicators set to the same corner other than 'off', on a
\* screen with a valid geometry, every paintEvent that draws both draws them
\* at least one slot (background size + margin) apart along x.
C11_SharedCornerNeverOverlaps ==
    SharedCorner(settings) /\ isValid(current_screen_geometry)
    /\ painted.rec # {} /\ painted.buf # {} =>
        Abs(painted.rec_pos.x - painted.buf_pos.x) >= slot_width(settings)

\* C13: on a 1920x1080 screen with both corners top-right, size 10, margin
\* 10 and bg_size_percent 300, every tick made while recording is active
\* leaves rec_state.target_position at (1895, 25), and, once the buffer is
\* active as well, buf_state.target_position at (1855, 25).
ScenarioSettings(s) ==
    /\ s.corner_rec = "top-right" /\ s.corner_buf = "top-right"
    /\ s.size = 10 /\ s.margin = 10 /\ s.bg_size_percent = 300

C13_TopRightScenario ==
    [][TickRan /\ ScenarioSettings(settings)
       /\ current_screen_geometry = FullHD /\ rec_state.active =>
         /\ rec_state'.target_position = Pt(1895 * PX, 25 * PX)
         /\ buf_state.active =>
              buf_state'.target_position = Pt(1855 * PX, 25 * PX)]_vars

\* recording started and a tick ran, then the buffer started and a tick ran:
\* the recording indicator has faded in further than the buffer indicator
C13_Witness ==
    /\ ScenarioSettings(settings) /\ current_screen_geometry = FullHD
    /\ rec_state.active /\ buf_state.active /\ settings.fade_effect
    /\ rec_state.visibility.current > buf_state.visibility.current
    /\ buf_state.visibility.current > 0
    /\ rec_state.target_position = Pt(1895 * PX, 25 * PX)
    /\ buf_state.target_position = Pt(1855 * PX, 25 * PX)

\* ------------------------------------------------------------------------
\* SpecClose: every handler of the window, before and after closeEvent
\* ------------------------------------------------------------------------
InitClose ==
    /\ LoopRunning
    /\ AvIdle
    /\ ColorIdle
    /\ LegacyIdle
    /\ now = 1
    /\ screen = FullHD
    /\ WindowConstructed(DEFAULT_SETTINGS)
    /\ events_left \in 0..MaxOpenOps /\ ticks_left \in 0..MaxOpenOps
    /\ settings_left \in 0..MaxOpenOps /\ screen_left \in 0..MaxOpenOps
    /\ events_left + ticks_left + settings_left + screen_left = MaxOpenOps
    /\ sync_left = 0

NextClose ==
    \/ HandleRec \/ HandleBuf \/ HandleSettings
    \/ AnimationTimeout \/ GeometryTimeout \/ Paint
    \/ Close \/ ScreenChanges

SpecClose == InitClose /\ [][NextClose]_vars

\* C3: once closing is set, no step of the event loop (a signal handler, a
\* timer callback or a paintEvent) changes rec_state, buf_state, settings,
\* positions_cache or current_screen_geometry, draws, or calls update().
C3_ClosedWindowIsInert ==
    [][closing =>
         /\ UNCHANGED <<rec_state, buf_state, settings, positions_cache,
                        current_screen_geometry>>
         /\ ~update_called'
         /\ painted' = NothingPainted]_vars

\* all six handlers have been entered on a closed window that was still
\* fading in and whose screen is no longer the one it was laid out for
C3_Witness ==
    /\ closing
    /\ stale = {"on_rec_status_changed", "on_buf_status_changed",
                "on_settings_updated", "_update_geometry",
                "update_animations", "paintEvent"}
    /\ rec_state.visibility.current # rec_state.visibility.target
    /\ screen # NoScreen /\ screen # current_screen_geometry

\* ------------------------------------------------------------------------
\* SpecClock: buffer signals and ticks while the clock runs
\* ------------------------------------------------------------------------
ClockSettings ==
    {QuickSettings, [QuickSettings EXCEPT !.checkmark_duration = 6]}

InitClock ==
    /\ LoopRunning
    /\ AvIdle
    /\ ColorIdle
    /\ LegacyIdle
    /\ now = 1
    /\ screen = FullHD
    /\ \E s \in ClockSettings : WindowConstructed(s)
    /\ events_left = MaxEvents /\ ticks_left = MaxTicks
    /\ settings_left = 0 /\ screen_left = 0 /\ sync_left = 0

NextClock == HandleBuf \/ AnimationTimeout \/ ClockAdvances

SpecClock == InitClock /\ [][NextClock]_vars

\* C7 as claimed: a tick keeps saved while less than checkmark_duration has
\* passed since the save and clears it once checkmark_duration is reached.
C7_ClearedWhenReached ==
    [][(TickRan /\ buf_state.saved) =>
         (buf_state'.saved
            <=> now - buf_state.saved_time < settings.checkmark_duration)]_vars

\* C7 as amended: a tick keeps saved while no more than checkmark_duration
\* has passed since the save, and clears saved and saved_time once more than
\* checkmark_duration has passed; nothing but such a tick clears saved.
C7_ClearedWhenExceeded ==
    [][/\ (TickRan /\ buf_state.saved) =>
            /\ buf_state'.saved
                 <=> now - buf_state.saved_time <= settings.checkmark_duration
            /\ ~buf_state'.saved => buf_state'.saved_time = 0
       /\ (buf_state.saved /\ ~buf_state'.saved) => TickRan]_vars

\* a tick showed the checkmark while the save was fresh and a later tick,
\* past the duration, has cleared saved: the checkmark is fading out
C7_Witness ==
    /\ ~buf_state.saved /\ buf_state.saved_time = 0
    /\ buf_state.checkmark_icon.target = 0
    /\ buf_state.checkmark_icon.current > 0

\* ------------------------------------------------------------------------
\* SpecAV: one AnimatedValue under repeated update(Animation.SPEED, True)
\* ------------------------------------------------------------------------
\* 0.0, 0.3 (Draw.DIM_OPACITY), 0.5 and 1.0
AvValues == {0, DIM_OPACITY, ONE \div 2, ONE}

InitAV ==
    /\ LoopRunning
    /\ now = 1
    /\ screen = FullHD
    /\ WindowConstructed(DEFAULT_SETTINGS)
    /\ events_left = 0 /\ ticks_left = 0
    /\ settings_left = 0 /\ screen_left = 0 /\ sync_left = 0
    /\ \E c \in AvValues, t \in AvValues :
         av = AnimatedValue(c, t) /\ av_start = c
    /\ av_ret = FALSE /\ av_calls = 0
    /\ ColorIdle
    /\ LegacyIdle

AvUpdate ==
    /\ av_calls < MaxCalls
    /\ av_ret' = update_returns(av)
    /\ av' = update(av, SPEED, TRUE)
    /\ av_calls' = av_calls + 1
    /\ UNCHANGED <<av_start, hostVars, guiVars, winVars, envVars, histVars,
                   leftVars, colorVars, legacyVars>>

NextAV == AvUpdate

SpecAV == InitAV /\ [][NextAV]_vars

FromZeroToOne == av_start = 0 /\ av.target = ONE

\* C8: from current = 0.0 with target = 1.0, every update(0.15, True) made
\* before the target is reached returns True and raises current, never past
\* the target, taking it to the target itself once the residual is below
\* SNAP_THRESHOLD; after MaxCalls calls current is the target; and once it
\* is, update returns False and changes nothing.
C8_ConvergesWithoutOvershoot ==
    /\ [](FromZeroToOne =>
            /\ av.current <= av.target
            /\ av_calls = MaxCalls => av.current = av.target)
    /\ [][FromZeroToOne =>
            IF av.current = av.target
            THEN ~av_ret' /\ av' = av
            ELSE /\ av_ret'
                 /\ av'.current > av.current
                 /\ av'.current <= av.target
                 /\ av.target - av.current < SNAP_THRESHOLD
                      => av'.current = av.target]_vars

\* the value has climbed from 0.0, the call before last snapped it onto 1.0
\* and the last call returned False
C8_Witness ==
    /\ FromZeroToOne /\ av.current = ONE
    /\ av_calls > 2 /\ av_calls < MaxCalls /\ ~av_ret

\* ------------------------------------------------------------------------
\* SpecBridge: the module, the host thread's callbacks and the render thread
\* ------------------------------------------------------------------------
\* the rest of the module body after the guarded import: class Draw builds
\* three QPointF at class level, outside any HAS_PYSIDE guard
module_after_import(has_pyside) == IF has_pyside THEN "loaded" ELSE "raised"

ImportModule ==
    /\ module_state = "importing"
    /\ \E imported \in BOOLEAN :
         /\ HAS_PYSIDE' = imported
         /\ module_state' = module_after_import(imported)
    /\ UNCHANGED <<overlay_app, gui_thread, callback_registered, timer_added,
                   host_pc, join_result, guiVars, winVars, envVars, histVars,
                   leftVars, avVars, colorVars, legacyVars>>

\* the float keys left out, as if the isinstance(value, float) branch were
\* missing
get_settings_skips_floats(settings_obj) ==
    [key \in DOMAIN DEFAULT_SETTINGS \ {"checkmark_duration", "flash_duration"}
       |-> settings_obj[key]]

\* get_settings_from_obs: a new dict with one entry per key of
\* DEFAULT_SETTINGS, read from the host's settings object
get_settings_from_obs(settings_obj) ==
    [key \in DOMAIN DEFAULT_SETTINGS |-> settings_obj[key]]

script_load ==
    /\ module_state = "loaded" /\ host_pc = "start"
    /\ host_pc' = "idle"
    /\ IF ~HAS_PYSIDE
       THEN UNCHANGED <<settings, callback_registered, overlay_app,
                        gui_thread, gui_pc, timer_added>>
       ELSE /\ \E settings_obj \in SettingsChoices :
                 settings' = get_settings_from_obs(settings_obj)
            /\ callback_registered' = TRUE
            /\ overlay_app' = TRUE
            /\ gui_thread' = TRUE
            /\ gui_pc' = "started"
            /\ timer_added' = TRUE
    /\ UNCHANGED <<HAS_PYSIDE, module_state, join_result, app_overlay,
                   connected, queue, closing, positions_cache,
                   current_screen_geometry, rec_state, buf_state,
                   animation_timer, geometry_timer, update_called, painted,
                   envVars, histVars, leftVars, avVars, colorVars, legacyVars>>

\* OverlayApp.run up to the end of OverlayWindow.__init__
ConstructWindow ==
    /\ gui_pc = "started"
    /\ gui_pc' = "constructed"
    /\ connected' = TRUE
    /\ closing' = FALSE
    /\ positions_cache' = EmptyCache
    /\ current_screen_geometry' =
           geometry_check(screen, InvalidRect, EmptyCache).geom
    /\ rec_state' = RecordingState
    /\ buf_state' = BufferState
    /\ animation_timer' = TRUE
    /\ geometry_timer' = TRUE
    /\ UNCHANGED <<settings, update_called, painted, app_overlay, queue,
                   hostVars, envVars, histVars, leftVars, avVars, colorVars, legacyVars>>

\* self.overlay = ..., self.overlay.show(), into self.app.exec_()
AssignOverlay ==
    /\ gui_pc = "constructed"
    /\ gui_pc' = "exec"
    /\ app_overlay' = TRUE
    /\ UNCHANGED <<connected, queue, hostVars, winVars, envVars, histVars,
                   leftVars, avVars, colorVars, legacyVars>>

Events == {"RECORDING_STARTING", "RECORDING_STOPPED", "RECORDING_PAUSED",
           "RECORDING_UNPAUSED", "REPLAY_BUFFER_STARTED",
           "REPLAY_BUFFER_STOPPED", "REPLAY_BUFFER_SAVED"}
OtherEvents == {"STREAMING_STARTED"}

\* a save reported as a plain start of the buffer
event_map_saved_as_started(event) ==
    CASE event \in {"RECORDING_STARTING", "RECORDING_UNPAUSED"} ->
           <<"rec", TRUE, FALSE>>
      [] event = "RECORDING_STOPPED" -> <<"rec", FALSE, FALSE>>
      [] event = "RECORDING_PAUSED" -> <<"rec", TRUE, TRUE>>
      [] event \in {"REPLAY_BUFFER_STARTED", "REPLAY_BUFFER_SAVED"} ->
           <<"buf", TRUE, FALSE>>
      [] event = "REPLAY_BUFFER_STOPPED" -> <<"buf", FALSE, FALSE>>
      [] OTHER -> <<>>

\* a stop that is emitted with the pause flag still up
event_map_stop_keeps_pause(event) ==
    CASE event \in {"RECORDING_STARTING", "RECORDING_UNPAUSED"} ->
           <<"rec", TRUE, FALSE>>
      [] event = "RECORDING_STOPPED" -> <<"rec", FALSE, TRUE>>
      [] event = "RECORDING_PAUSED" -> <<"rec", TRUE, TRUE>>
      [] event = "REPLAY_BUFFER_STARTED" -> <<"buf", TRUE, FALSE>>
      [] event = "REPLAY_BUFFER_STOPPED" -> <<"buf", FALSE, FALSE>>
      [] event = "REPLAY_BUFFER_SAVED" -> <<"buf", TRUE, TRUE>>
      [] OTHER -> <<>>

\* event_map: the signal and the tuple an event is emitted as
event_map(event) ==
    CASE event = "RECORDING_STARTING" -> <<"rec", TRUE, FALSE>>
      [] event = "RECORDING_STOPPED" -> <<"rec", FALSE, FALSE>>
      [] event = "RECORDING_PAUSED" -> <<"rec", TRUE, TRUE>>
      [] event = "RECORDING_UNPAUSED" -> <<"rec", TRUE, FALSE>>
      [] event = "REPLAY_BUFFER_STARTED" -> <<"buf", TRUE, FALSE>>
      [] event = "REPLAY_BUFFER_STOPPED" -> <<"buf", FALSE, FALSE>>
      [] event = "REPLAY_BUFFER_SAVED" -> <<"buf", TRUE, TRUE>>
      [] OTHER -> <<>>

\* a posted Qt event: id is the event's place in `delivered`, 0 for a signal
\* that no host event stands behind
Msg(kind, a, b, s, id) == [kind |-> kind, a |-> a, b |-> b, s |-> s, id |-> id]

\* a direct connection: the slot would run inside emit, on the emitting
\* thread, and nothing is posted
emit_direct(q, is_connected, msg) == q

\* Signal.emit over a Qt.QueuedConnection: posted to the window's thread if
\* the slot is connected, without effect if it is not
emit(q, is_connected, msg) == IF is_connected THEN Append(q, msg) ELSE q

event_handler(event) ==
    /\ host_pc = "idle" /\ callback_registered
    /\ events_left > 0
    /\ events_left' = events_left - 1
    /\ IF ~HAS_PYSIDE \/ ~overlay_app \/ event_map(event) = <<>>
       THEN UNCHANGED <<queue, delivered>>
       ELSE LET sig == event_map(event)
            IN  /\ delivered' = Append(delivered, event)
                /\ queue' = emit(queue, connected,
                                 Msg(sig[1], sig[2], sig[3], DEFAULT_SETTINGS,
                                     Len(delivered) + 1))
    /\ UNCHANGED <<hostVars, app_overlay, connected, gui_pc, winVars,
                   envVars, handled, stale, ticks_left, settings_left,
                   screen_left, sync_left, avVars, colorVars, legacyVars>>

EventArrives == \E event \in Events \cup OtherEvents : event_handler(event)

script_update ==
    /\ host_pc = "idle" /\ module_state = "loaded"
    /\ settings_left > 0
    /\ settings_left' = settings_left - 1
    /\ IF HAS_PYSIDE /\ overlay_app
       THEN \E settings_obj \in SettingsChoices :
              queue' = emit(queue, connected,
                            Msg("settings", FALSE, FALSE,
                                get_settings_from_obs(settings_obj), 0))
       ELSE UNCHANGED queue
    /\ UNCHANGED <<hostVars, app_overlay, connected, gui_pc, winVars,
                   envVars, histVars, events_left, ticks_left, screen_left,
                   sync_left, avVars, colorVars, legacyVars>>

\* the host timer added by script_load runs _send_initial_state
_send_initial_state ==
    /\ host_pc = "idle" /\ timer_added
    /\ sync_left > 0
    /\ sync_left' = sync_left - 1
    /\ IF overlay_app
       THEN \E rec_active \in BOOLEAN, paused \in BOOLEAN,
               buf_active \in BOOLEAN :
              LET rec_paused == IF rec_active THEN paused ELSE FALSE
              IN  queue' =
                    emit(emit(queue, connected,
                              Msg("rec", rec_active, rec_paused,
                                  DEFAULT_SETTINGS, 0)),
                         connected,
                         Msg("buf", buf_active, FALSE, DEFAULT_SETTINGS, 0))
       ELSE UNCHANGED queue
    /\ UNCHANGED <<hostVars, app_overlay, connected, gui_pc, winVars,
                   envVars, histVars, events_left, ticks_left, settings_left,
                   screen_left, avVars, colorVars, legacyVars>>

\* OverlayApp.stop: a queued call of close, if self.overlay is set
stop(q, overlay_set) ==
    IF overlay_set
    THEN Append(q, Msg("close", FALSE, FALSE, DEFAULT_SETTINGS, 0))
    ELSE q

\* script_unload up to gui_thread.join(Timeouts.THREAD_JOIN)
script_unload ==
    /\ host_pc = "idle"
    /\ callback_registered' = FALSE
    /\ IF HAS_PYSIDE /\ overlay_app
       THEN /\ queue' = stop(queue, app_overlay)
            /\ host_pc' = "join"
            /\ UNCHANGED <<overlay_app, gui_thread>>
       ELSE /\ host_pc' = "done"
            /\ UNCHANGED <<queue, overlay_app, gui_thread>>
    /\ UNCHANGED <<HAS_PYSIDE, module_state, timer_added, join_result,
                   app_overlay, connected, gui_pc, winVars, envVars,
                   histVars, leftVars, avVars, colorVars, legacyVars>>

\* a join without a timeout ends only when the thread has exited
join_without_timeout(thread_pc) ==
    IF thread_pc = "exited" THEN {"exited"} ELSE {}

\* how gui_thread.join(THREAD_JOIN) can end: the thread has exited, or the
\* timeout runs out first
join(thread_pc) == IF thread_pc = "exited" THEN {"exited"} ELSE {"timeout"}

\* the join ends and script_unload returns
JoinReturns ==
    /\ host_pc = "join"
    /\ \E r \in join(gui_pc) : join_result' = r
    /\ overlay_app' = FALSE
    /\ gui_thread' = FALSE
    /\ host_pc' = "done"
    /\ UNCHANGED <<HAS_PYSIDE, module_state, callback_registered,
                   timer_added, guiVars, winVars, envVars, histVars,
                   leftVars, avVars, colorVars, legacyVars>>

\* the event loop takes the oldest posted event and runs its slot
Dispatch ==
    /\ gui_pc = "exec" /\ queue # <<>>
    /\ LET msg == Head(queue)
       IN  /\ CASE msg.kind = "rec" ->
                     on_rec_status_changed(msg.a, msg.b)
                     /\ Entered("on_rec_status_changed")
                [] msg.kind = "buf" ->
                     on_buf_status_changed(msg.a, msg.b)
                     /\ Entered("on_buf_status_changed")
                [] msg.kind = "settings" ->
                     on_settings_updated(msg.s)
                     /\ Entered("on_settings_updated")
                [] OTHER -> closeEvent /\ UNCHANGED stale
           /\ handled' = IF msg.id > 0 THEN Append(handled, msg.id)
                         ELSE handled
    /\ queue' = Tail(queue)
    /\ UNCHANGED <<hostVars, app_overlay, connected, gui_pc, envVars,
                   delivered, leftVars, avVars, colorVars, legacyVars>>

\* the last window has closed: deleteLater takes the window and what is
\* still posted to it, app.exec_() returns and the thread ends
LoopExits ==
    /\ gui_pc = "exec" /\ closing
    /\ gui_pc' = "exited"
    /\ connected' = FALSE
    /\ queue' = <<>>
    /\ UNCHANGED <<app_overlay, hostVars, winVars, envVars, histVars,
                   leftVars, avVars, colorVars, legacyVars>>

InitBridge ==
    /\ HAS_PYSIDE = FALSE /\ module_state = "importing"
    /\ overlay_app = FALSE /\ gui_thread = FALSE
    /\ callback_registered = FALSE /\ timer_added = FALSE
    /\ host_pc = "start" /\ join_result = "none"
    /\ app_overlay = FALSE /\ connected = FALSE /\ gui_pc = "none"
    /\ queue = <<>>
    /\ settings = DEFAULT_SETTINGS
    /\ closing = FALSE
    /\ positions_cache = EmptyCache
    /\ current_screen_geometry = InvalidRect
    /\ rec_state = RecordingState
    /\ buf_state = BufferState
    /\ animation_timer = FALSE /\ geometry_timer = FALSE
    /\ update_called = FALSE /\ painted = NothingPainted
    /\ now = 1
    /\ screen = FullHD
    /\ HistoryEmpty
    /\ events_left \in 0..MaxHostCalls /\ settings_left \in 0..MaxHostCalls
    /\ sync_left \in 0..MaxHostCalls
    /\ events_left + settings_left + sync_left = MaxHostCalls
    /\ ticks_left = 0 /\ screen_left = 0
    /\ AvIdle
    /\ ColorIdle
    /\ LegacyIdle

NextBridge ==
    \/ ImportModule \/ script_load \/ ConstructWindow \/ AssignOverlay
    \/ EventArrives \/ script_update \/ _send_initial_state
    \/ script_unload \/ JoinReturns
    \/ Dispatch \/ LoopExits

SpecBridge == InitBridge /\ [][NextBridge]_vars

\* ------------------------------------------------------------------------
\* Properties of SpecBridge
\* ------------------------------------------------------------------------
UnloadCalled == host_pc \in {"join", "done"}
CloseQueued == \E i \in DOMAIN queue : queue[i].kind = "close"
LoopIdle == gui_pc = "exec" /\ ~closing /\ queue = <<>>

\* C1: every lifecycle event given to event_handler after script_load has
\* returned has its handler run on the render thread exactly once and in the
\* order of delivery: the handlers that ran are those of the first, second,
\* ... event, and once the open window's event loop has nothing left to
\* dispatch they are those of all the events delivered, the ones delivered
\* before the window connected its slots included.
C1_EveryEventHandledInOrder ==
    /\ \A i \in DOMAIN handled : handled[i] = i
    /\ LoopIdle => Len(handled) = Len(delivered)

\* C4: once script_unload has called OverlayApp.stop(), the window is closing
\* with both timers stopped, or its close is posted and on the way, whatever
\* the render thread was doing when stop() ran.
C4_UnloadClosesWindow ==
    UnloadCalled /\ gui_pc # "none" =>
        \/ closing /\ ~animation_timer /\ ~geometry_timer
        \/ CloseQueued

\* C5: script_unload terminates whether or not the render thread exits (the
\* join can always end), it leaves overlay_app and gui_thread None and the
\* event callback unregistered, and no step of it ends the render thread.
C5_UnloadTerminatesAndClears ==
    /\ [](host_pc = "join" => ENABLED JoinReturns)
    /\ [](host_pc = "done" =>
            ~overlay_app /\ ~gui_thread /\ ~callback_registered)
    /\ [][host_pc' # host_pc /\ host_pc' \in {"join", "done"} =>
            gui_pc' = gui_pc]_vars

\* script_unload has returned on the timeout, the render thread still in its
\* event loop
C5_Witness ==
    /\ host_pc = "done" /\ join_result = "timeout"
    /\ gui_pc = "exec" /\ ~closing
    /\ ~overlay_app /\ ~gui_thread /\ ~callback_registered

\* C6: without PySide2 the module still loads: nothing raises, and no
\* thread, window or signal comes into being.
C6_LoadsWithoutPySide ==
    ~HAS_PYSIDE =>
        /\ module_state # "raised"
        /\ ~overlay_app /\ ~gui_thread /\ gui_pc = "none" /\ queue = <<>>

\* C15: event_handler turns each of the seven host events into one emission
\* with a fixed tuple: recording_starting -> rec(True, False),
\* recording_stopped -> rec(False, False), recording_paused ->
\* rec(True, True), recording_unpaused -> rec(True, False), buffer_started ->
\* buf(True, False), buffer_stopped -> buf(False, False), buffer_saved ->
\* buf(True, True); for any other event nothing is emitted. An emission is
\* seen as the one message it posts to the connected window.
C15_EventsMapToFixedTuples ==
    [][\A event \in Events \cup OtherEvents :
         event_handler(event) =>
           LET tuple == CASE event = "RECORDING_STARTING" -> <<TRUE, FALSE>>
                          [] event = "RECORDING_STOPPED" -> <<FALSE, FALSE>>
                          [] event = "RECORDING_PAUSED" -> <<TRUE, TRUE>>
                          [] event = "RECORDING_UNPAUSED" -> <<TRUE, FALSE>>
                          [] event = "REPLAY_BUFFER_STARTED" -> <<TRUE, FALSE>>
                          [] event = "REPLAY_BUFFER_STOPPED" -> <<FALSE, FALSE>>
                          [] event = "REPLAY_BUFFER_SAVED" -> <<TRUE, TRUE>>
                          [] OTHER -> <<>>
               signal == IF event \in {"RECORDING_STARTING",
                                       "RECORDING_STOPPED",
                                       "RECORDING_PAUSED",
                                       "RECORDING_UNPAUSED"}
                         THEN "rec" ELSE "buf"
           IN  IF tuple = <<>>
               THEN queue' = queue /\ delivered' = delivered
               ELSE /\ delivered' = Append(delivered, event)
                    /\ connected =>
                         /\ Len(queue') = Len(queue) + 1
                         /\ SubSeq(queue', 1, Len(queue)) = queue
                         /\ queue'[Len(queue')].kind = signal
                         /\ queue'[Len(queue')].a = tuple[1]
                         /\ queue'[Len(queue')].b = tuple[2]]_vars

\* a buffer_saved event is on its way to the window as buf(True, True), and
\* on_rec_status_changed has run for the recording_paused event before it
C15_Witness ==
    /\ rec_state.active /\ rec_state.paused
    /\ \E i \in DOMAIN queue :
         /\ queue[i].id > 0
         /\ delivered[queue[i].id] = "REPLAY_BUFFER_SAVED"
         /\ queue[i].kind = "buf" /\ queue[i].a /\ queue[i].b
    /\ \E j \in DOMAIN handled :
         delivered[handled[j]] = "RECORDING_PAUSED"

\* C16: rec_state, buf_state, settings and positions_cache of the window are
\* written only by steps of the render thread: event_handler, script_update
\* and _send_initial_state leave them as they are and at most add posted
\* signals to the window's queue, every emission to a connected window being
\* posted; and once the render thread runs, a step that changes one of the
\* four is the construction of the window or the dispatch of a posted event.
C16_StateOwnedByRenderThread ==
    [][/\ EventArrives \/ script_update \/ _send_initial_state =>
            /\ UNCHANGED <<rec_state, buf_state, settings, positions_cache>>
            /\ Len(queue') >= Len(queue)
            /\ SubSeq(queue', 1, Len(queue)) = queue
            /\ connected /\ (delivered' # delivered \/ sync_left' < sync_left)
                 => Len(queue') > Len(queue)
       /\ gui_pc # "none"
          /\ <<rec_state, buf_state, settings, positions_cache>>'
               # <<rec_state, buf_state, settings, positions_cache>> =>
            \/ gui_pc = "started" /\ gui_pc' = "constructed"
            \/ gui_pc = "exec" /\ queue # <<>> /\ queue' = Tail(queue)]_vars

\* an event's handler has run on the render thread and changed rec_state,
\* while a settings update emitted by script_update is still posted
C16_Witness ==
    /\ handled # <<>> /\ rec_state.active
    /\ \E i \in DOMAIN queue : queue[i].kind = "settings"
    /\ host_pc = "idle"

\* C17: settings are replaced whole. The window's settings always hold a
\* value for every key of DEFAULT_SETTINGS, and so does every snapshot
\* script_update has posted; the only step that changes the settings of a
\* constructed window is on_settings_updated, run on the render thread for
\* the oldest posted event, and it makes them that event's snapshot in one
\* assignment; a posted snapshot stays as it was emitted until it is
\* dispatched.
C17_SettingsSwappedWhole ==
    /\ [](DOMAIN settings = DOMAIN DEFAULT_SETTINGS)
    /\ [](\A i \in DOMAIN queue :
            queue[i].kind = "settings" =>
                DOMAIN queue[i].s = DOMAIN DEFAULT_SETTINGS)
    /\ [][/\ gui_pc # "none" /\ settings' # settings =>
               /\ gui_pc = "exec" /\ ~closing /\ queue # <<>>
               /\ Head(queue).kind = "settings"
               /\ settings' = Head(queue).s
               /\ queue' = Tail(queue)
          /\ \/ queue' = <<>>
             \/ queue # <<>> /\ queue' = Tail(queue)
             \/ Len(queue') >= Len(queue)
                /\ SubSeq(queue', 1, Len(queue)) = queue]_vars

\* on_settings_updated has just swapped in one snapshot while a different
\* one, emitted later, is still posted
C17_Witness ==
    /\ gui_pc = "exec" /\ ~closing /\ update_called
    /\ settings = SnapSettings
    /\ \E i \in DOMAIN queue :
         queue[i].kind = "settings" /\ queue[i].s = QuickSettings

\* ------------------------------------------------------------------------
\* SpecCorners: both indicators in one corner, under every corner and two
\* sizes, while recording starts and stops, the settings are replaced and
\* the screen changes
\* ------------------------------------------------------------------------
Sizes == {<<10, 10, 300>>, <<7, 3, 115>>}

CornerSettings ==
    { [DEFAULT_SETTINGS EXCEPT !.corner_rec = c, !.corner_buf = c,
                               !.size = z[1], !.margin = z[2],
                               !.bg_size_percent = z[3]] :
        c \in Corners \ {OFF}, z \in Sizes }

InitCorners ==
    /\ LoopRunning
    /\ AvIdle
    /\ ColorIdle
    /\ LegacyIdle
    /\ now = 1
    /\ screen \in Screens
    /\ \E s \in CornerSettings : WindowConstructed(s)
    /\ events_left = MaxEvents /\ ticks_left = MaxTicks
    /\ settings_left = 1 /\ screen_left = 1 /\ sync_left = 0

NextCorners ==
    \/ HandleRec \/ HandleSettings \/ AnimationTimeout
    \/ GeometryTimeout \/ ScreenChanges

SpecCorners == InitCorners /\ [][NextCorners]_vars

LeftCorners == {"top-left", "bottom-left"}

\* C12: after every tick made with both indicators set to the same corner
\* other than 'off' and a valid screen geometry, if recording is active the
\* buffer indicator's target position is the recording indicator's moved by
\* exactly bg_size + margin along x, away from the corner's vertical edge
\* (+x in a left corner, -x in a right corner), with the same y; if
\* recording is not active the two target positions are equal.
C12_BufferTakesSecondSlot ==
    [][TickRan /\ SharedCorner(settings)
       /\ isValid(current_screen_geometry) =>
         LET rec_target == rec_state'.target_position
             buf_target == buf_state'.target_position
             away == IF settings.corner_rec \in LeftCorners THEN 1 ELSE -1
         IN  IF rec_state'.active
             THEN /\ buf_target.x - rec_target.x
                       = away * slot_width(settings) * PX
                  /\ buf_target.y = rec_target.y
             ELSE buf_target = rec_target]_vars

\* recording is active in a left corner under the smaller sizes, and a tick
\* has put the buffer indicator's target into the second slot
C12_Witness ==
    /\ SharedCorner(settings) /\ settings.corner_rec \in LeftCorners
    /\ settings.size = 7 /\ isValid(current_screen_geometry)
    /\ rec_state.active
    /\ positions_cache[<<settings.corner_buf, 1>>] # <<>>
    /\ buf_state.target_position.x - rec_state.target_position.x
         = slot_width(settings) * PX
    /\ ~isNull(rec_state.target_position)

\* ------------------------------------------------------------------------
\* SpecRepaint: the user moves the recording indicator from corner to corner
\* in the property panel while recording starts and stops
\* ------------------------------------------------------------------------
\* script_update after a change of the "Position" list of the recording
\* group: the settings as they are, with another corner_rec
HandleCorner ==
    /\ settings_left > 0 \/ closing
    /\ \E c \in Corners \ {settings.corner_rec} :
         on_settings_updated([settings EXCEPT !.corner_rec = c])
    /\ settings_left' = IF closing THEN settings_left ELSE settings_left - 1
    /\ Entered("on_settings_updated")
    /\ UNCHANGED <<hostVars, guiVars, envVars, avVars, colorVars, legacyVars, delivered, handled,
                   events_left, ticks_left, screen_left, sync_left>>

\* the effects off or on, the buffer indicator in a corner of its own
RepaintSettings ==
    { [DEFAULT_SETTINGS EXCEPT !.corner_rec = c, !.corner_buf = "bottom-left",
                               !.fade_effect = f, !.smooth_position = f] :
        c \in {OFF, "top-right"}, f \in BOOLEAN }

InitRepaint ==
    /\ LoopRunning
    /\ AvIdle
    /\ ColorIdle
    /\ LegacyIdle
    /\ now = 1
    /\ screen = FullHD
    /\ \E s \in RepaintSettings : WindowConstructed(s)
    /\ events_left = MaxEvents /\ ticks_left = MaxTicks
    /\ settings_left = 1 /\ screen_left = 0 /\ sync_left = 0

NextRepaint == HandleRec \/ HandleCorner \/ AnimationTimeout \/ Paint

SpecRepaint == InitRepaint /\ [][NextRepaint]_vars

\* the current value of every animated quantity
Currents(rec, buf) ==
    << rec.visibility.current, rec.position, rec.pause_icon.current,
       rec.border_width.current,
       buf.visibility.current, buf.position, buf.checkmark_icon.current,
       buf.dim_effect.current, buf.flash_effect.current,
       buf.border_width.current, buf.save_border_width.current >>

Shown(state) == state.visibility.current >= SNAP_THRESHOLD

\* C14: a tick of update_animations calls self.update() if and only if an
\* animated quantity (a visibility, a position, pause_icon, checkmark_icon,
\* dim_effect, flash_effect, a border width) changed its current value in
\* that tick; stated here for the ticks that start with an indicator on
\* screen.
C14_RepaintIffChanged ==
    [][TickRan /\ (Shown(rec_state) \/ Shown(buf_state)) =>
         (update_called' <=>
            Currents(rec_state', buf_state') # Currents(rec_state, buf_state))
      ]_vars

\* ------------------------------------------------------------------------
\* SpecBorders: every combination of the four border toggles, while
\* recording and buffer events arrive, the ticks run and time passes
\* ------------------------------------------------------------------------
BorderSettings ==
    { [QuickSettings EXCEPT !.rec_border_enabled = r,
                            !.rec_pause_border_enabled = p,
                            !.buf_border_enabled = b,
                            !.buf_save_border_enabled = v] :
        r \in BOOLEAN, p \in BOOLEAN, b \in BOOLEAN, v \in BOOLEAN }

InitBorders ==
    /\ LoopRunning
    /\ AvIdle
    /\ ColorIdle
    /\ LegacyIdle
    /\ now = 1
    /\ screen = FullHD
    /\ \E s \in BorderSettings : WindowConstructed(s)
    /\ events_left = MaxEvents /\ ticks_left = MaxTicks
    /\ settings_left = 0 /\ screen_left = 0 /\ sync_left = 0

NextBorders == HandleRec \/ HandleBuf \/ AnimationTimeout \/ ClockAdvances

SpecBorders == InitBorders /\ [][NextBorders]_vars

\* C18: after every tick rec_state.border_width.target is
\* settings['border_width'] exactly when recording is active and either
\* rec_border_enabled is set, or it is unset while rec_pause_border_enabled
\* is set and recording is paused, and 0 otherwise; save_border_width.target
\* is settings['border_width'] exactly when buf_border_enabled is unset,
\* buf_save_border_enabled is set and saved is True, and 0 otherwise; the
\* save border and the regular buffer border never both have a non-zero
\* target.
C18_BorderPrecedence ==
    [][TickRan =>
         LET s == settings
             rec == rec_state'
             buf == buf_state'
             rec_on == rec.active
                       /\ \/ s.rec_border_enabled
                          \/ ~s.rec_border_enabled
                             /\ s.rec_pause_border_enabled /\ rec.paused
             save_on == ~s.buf_border_enabled /\ s.buf_save_border_enabled
                        /\ buf.saved
         IN  /\ rec.border_width.target
                  = IF rec_on THEN s.border_width * ONE ELSE 0
             /\ buf.save_border_width.target
                  = IF save_on THEN s.border_width * ONE ELSE 0
             /\ ~(buf.save_border_width.target # 0
                  /\ buf.border_width.target # 0)]_vars

\* the pause border is up without the main recording border, and the save
\* border, raised by a save, is on its way down again since the checkmark
\* ran out
C18_Witness ==
    /\ ~settings.rec_border_enabled /\ settings.rec_pause_border_enabled
    /\ rec_state.active /\ rec_state.paused
    /\ rec_state.border_width.target = settings.border_width * ONE
    /\ ~settings.buf_border_enabled /\ settings.buf_save_border_enabled
    /\ buf_state.active /\ ~buf_state.saved
    /\ buf_state.save_border_width.target = 0
    /\ buf_state.save_border_width.current > 0
    /\ buf_state.border_width.target = 0

\* ------------------------------------------------------------------------
\* SpecColor: a colour taken through the two conversions, starting from an
\* RGB value or from a packed value of the host
\* ------------------------------------------------------------------------
ByteChoices == {0, 85, 128, 255}

Rgb(r, g, b) == r * (256 * 256) + g * 256 + b

RgbInputs == {Rgb(r, g, b) : r \in ByteChoices, g \in ByteChoices,
                             b \in ByteChoices}

ObsInputs == {PackedColor(top, low) : top \in {0, 128, 255},
                                      low \in RgbInputs}

InitColor ==
    /\ LoopRunning
    /\ AvIdle
    /\ LegacyIdle
    /\ now = 1
    /\ screen = FullHD
    /\ WindowConstructed(DEFAULT_SETTINGS)
    /\ events_left = 0 /\ ticks_left = 0
    /\ settings_left = 0 /\ screen_left = 0 /\ sync_left = 0
    /\ \/ /\ color_pc = "rgb"
          /\ rgb_color \in RgbInputs /\ obs_color = PackedColor(0, 0)
       \/ /\ color_pc = "obs"
          /\ obs_color \in ObsInputs /\ rgb_color = 0
    /\ color_in = [rgb |-> rgb_color, obs |-> obs_color]

\* script_defaults hands a colour to the host
ToObs ==
    /\ color_pc \in {"rgb", "obs_rgb"}
    /\ obs_color' = rgb_to_obs_color(rgb_color)
    /\ color_pc' = IF color_pc = "rgb" THEN "rgb_obs" ELSE "obs_rgb_obs"
    /\ UNCHANGED <<rgb_color, color_in, hostVars, guiVars, winVars, envVars,
                   histVars, leftVars, avVars, legacyVars>>

\* get_settings_from_obs reads a colour of the host
ToRgb ==
    /\ color_pc \in {"obs", "rgb_obs"}
    /\ rgb_color' = obs_color_to_rgb(obs_color)
    /\ color_pc' = IF color_pc = "obs" THEN "obs_rgb" ELSE "rgb_obs_rgb"
    /\ UNCHANGED <<obs_color, color_in, hostVars, guiVars, winVars, envVars,
                   histVars, leftVars, avVars, legacyVars>>

NextColor == ToObs \/ ToRgb

SpecColor == InitColor /\ [][NextColor]_vars

\* C19: obs_color_to_rgb(rgb_to_obs_color(c)) = c for the 24-bit values c.
C19_RgbRoundTrip ==
    color_pc = "rgb_obs_rgb" => rgb_color = color_in.rgb

\* a colour with different red and blue has been to the host, where the two
\* had changed places, and is back
C19_Witness ==
    /\ color_pc = "rgb_obs_rgb"
    /\ Byte0(rgb_color) # Byte2(rgb_color)
    /\ Byte0(obs_color.low) = Byte2(rgb_color)
    /\ Byte2(obs_color.low) = Byte0(rgb_color)

\* C20 as claimed: rgb_to_obs_color(obs_color_to_rgb(o)) = o for every packed
\* 32-bit value o, whatever its alpha byte.
C20_ObsRoundTrip ==
    color_pc = "obs_rgb_obs" => obs_color = color_in.obs

\* C20: rgb_to_obs_color(obs_color_to_rgb(o)) is o with its alpha byte set
\* to 0xFF; it is o itself exactly when the alpha byte of o is 0xFF.
C20_ObsRoundTripOpaque ==
    color_pc = "obs_rgb_obs" =>
        /\ obs_color = [color_in.obs EXCEPT !.top = 255]
        /\ obs_color = color_in.obs <=> color_in.obs.top = 255

\* an opaque packed colour with different red and blue has been converted to
\* RGB and back
C20_Witness ==
    /\ color_pc = "obs_rgb_obs"
    /\ color_in.obs.top = 255 /\ obs_color = color_in.obs
    /\ Byte0(obs_color.low) # Byte2(obs_color.low)
    /\ Byte0(rgb_color) = Byte2(obs_color.low)

\* ------------------------------------------------------------------------
\* SpecScreen: a window constructed while no primary screen was available;
\* screens appear, change and disappear while recording starts and stops,
\* the settings are replaced and both timers fire
\* ------------------------------------------------------------------------
InitScreen ==
    /\ LoopRunning
    /\ AvIdle
    /\ ColorIdle
    /\ LegacyIdle
    /\ now = 1
    /\ screen = NoScreen
    /\ \E s \in SettingsChoices : WindowConstructed(s)
    /\ events_left = MaxEvents /\ ticks_left = MaxTicks
    /\ settings_left = 1 /\ screen_left = 2 /\ sync_left = 0

NextScreen ==
    \/ HandleRec \/ HandleSettings \/ AnimationTimeout
    \/ GeometryTimeout \/ ScreenChanges

SpecScreen == InitScreen /\ [][NextScreen]_vars

\* the target position a tick computes from the settings and a valid
\* geometry: the corner's slot, in the units of the animated position
target_of(name, rec_active, s, geom) ==
    LET pos == fresh_position(s, geom, corner_of(name, s),
                              slot_index(name, rec_active, s))
    IN  Pt(pos.x * PX, pos.y * PX)

\* C21: a geometry check made while there is no primary screen changes
\* nothing (stored geometry and cache stay, no repaint is requested); a
\* tick made while the stored geometry is invalid leaves both target
\* positions and the cache unchanged; a geometry check that finds a screen
\* differing from the stored geometry installs it, empties the cache and
\* requests a repaint, and every tick made with a valid stored geometry
\* sets the target position of each indicator whose corner is not 'off'
\* to its slot computed from that geometry.
C21_NoScreenNoPositions ==
    /\ [][GeometryTimeout /\ ~closing /\ screen = NoScreen
            => /\ UNCHANGED <<current_screen_geometry, positions_cache>>
               /\ ~update_called']_vars
    /\ [][TickRan /\ ~isValid(current_screen_geometry)
            => /\ rec_state'.target_position = rec_state.target_position
               /\ buf_state'.target_position = buf_state.target_position
               /\ UNCHANGED positions_cache]_vars
    /\ [][GeometryTimeout /\ ~closing /\ screen # NoScreen
                          /\ screen # current_screen_geometry
            => /\ current_screen_geometry' = screen
               /\ positions_cache' = EmptyCache
               /\ update_called']_vars
    /\ [][TickRan /\ isValid(current_screen_geometry)
            => /\ settings.corner_rec # OFF
                    => rec_state'.target_position =
                           target_of("rec", rec_state.active, settings,
                                     current_screen_geometry)
               /\ settings.corner_buf # OFF
                    => buf_state'.target_position =
                           target_of("buf", rec_state.active, settings,
                                     current_screen_geometry)]_vars

\* the window was constructed without a screen; a screen was found since,
\* then a different one, and a tick has put the recording indicator in its
\* slot on the latest one
C21_Witness ==
    /\ screen_left = 0
    /\ isValid(current_screen_geometry) /\ current_screen_geometry = screen
    /\ settings.corner_rec # OFF
    /\ rec_state.active
    /\ rec_state.target_position =
           target_of("rec", TRUE, settings, current_screen_geometry)
    /\ positions_cache[<<settings.corner_rec, 0>>] # <<>>

\* ------------------------------------------------------------------------
\* SpecQuiesce: a few events early on, then the animation timer alone. The
\* timer keeps firing (weak fairness) and the clock moves with it; the
\* clock is read only against saved_time and flash_start_time, and events
\* stop early enough for both waits to run out before it reaches MaxTime
\* ------------------------------------------------------------------------
QuiesceSettings ==
    { [QuickSettings EXCEPT !.corner_buf = "top-right"], SnapSettings }

LongestWait(s) ==
    IF s.checkmark_duration > s.flash_duration THEN s.checkmark_duration
    ELSE s.flash_duration

RoomToExpire == now + LongestWait(settings) < MaxTime

EarlyRec == RoomToExpire /\ HandleRec

EarlyBuf == RoomToExpire /\ HandleBuf

\* the animation timer fires again, one clock unit after the last time
TimedTick ==
    /\ update_animations
    /\ now' = IF now < MaxTime THEN now + 1 ELSE now
    /\ Entered("update_animations")
    /\ UNCHANGED <<hostVars, guiVars, screen, avVars, colorVars, legacyVars, delivered,
                   handled, leftVars>>

InitQuiesce ==
    /\ LoopRunning
    /\ AvIdle
    /\ ColorIdle
    /\ LegacyIdle
    /\ now = 1
    /\ screen = FullHD
    /\ \E s \in QuiesceSettings : WindowConstructed(s)
    /\ events_left = MaxEvents /\ ticks_left = 0
    /\ settings_left = 0 /\ screen_left = 0 /\ sync_left = 0

NextQuiesce == EarlyRec \/ EarlyBuf \/ TimedTick

SpecQuiesce == InitQuiesce /\ [][NextQuiesce]_vars /\ WF_vars(TimedTick)

AtTarget(value) == value.current = value.target

Quiescent ==
    /\ AtTarget(rec_state.visibility) /\ AtTarget(rec_state.pause_icon)
    /\ AtTarget(rec_state.border_width)
    /\ AtTarget(buf_state.visibility) /\ AtTarget(buf_state.checkmark_icon)
    /\ AtTarget(buf_state.dim_effect) /\ AtTarget(buf_state.flash_effect)
    /\ AtTarget(buf_state.border_width)
    /\ AtTarget(buf_state.save_border_width)
    /\ rec_state.position = rec_state.target_position
    /\ buf_state.position = buf_state.target_position
    /\ ~buf_state.saved
    /\ buf_state.flash_start_time = 0

\* C22: once the events have stopped, the ticks bring the window to a
\* state it then keeps for good, in which every animated value's current
\* equals its target, both positions equal their target positions, saved
\* is False, flash_start_time is 0.0 and no tick requests a repaint any
\* more.
C22_Quiescence == <>[](Quiescent /\ ~update_called)

\* at rest after a paused recording beside an active buffer whose save has
\* expired: indicators fully shown in their slots, the buffer one dimmed
C22_Witness ==
    /\ Quiescent /\ ~update_called
    /\ rec_state.active /\ rec_state.paused /\ buf_state.active
    /\ settings.fade_effect /\ settings.smooth_position
    /\ rec_state.visibility.current = ONE
    /\ buf_state.dim_effect.current = DIM_OPACITY
    /\ ~isNull(buf_state.position)
    /\ now > 1 + settings.checkmark_duration

\* ------------------------------------------------------------------------
\* SpecMove: _update_position_animation applied tick after tick to an
\* indicator that stands in one slot of the screen while its target is
\* another slot, with smooth movement on or off
\* ------------------------------------------------------------------------
MoveSettings ==
    { DEFAULT_SETTINGS, [DEFAULT_SETTINGS EXCEPT !.smooth_position = FALSE] }

\* the eight slots of a full-HD screen under the default sizes
SlotPoints ==
    { target_of(name, TRUE,
                [DEFAULT_SETTINGS EXCEPT !.corner_rec = c, !.corner_buf = c],
                FullHD) :
        name \in {"rec", "buf"}, c \in Corners \ {OFF} }

InitMove ==
    /\ LoopRunning
    /\ AvIdle
    /\ ColorIdle
    /\ LegacyIdle
    /\ now = 1
    /\ screen = FullHD
    /\ settings \in MoveSettings
    /\ closing = FALSE
    /\ positions_cache = EmptyCache
    /\ current_screen_geometry = FullHD
    /\ \E p \in SlotPoints, t \in SlotPoints :
           rec_state = [RecordingState EXCEPT !.position = p,
                                              !.target_position = t]
    /\ buf_state = BufferState
    /\ animation_timer = TRUE /\ geometry_timer = TRUE
    /\ update_called = FALSE
    /\ painted = NothingPainted
    /\ events_left = 0 /\ ticks_left = MaxMoveTicks
    /\ settings_left = 0 /\ screen_left = 0 /\ sync_left = 0

\* the movement of one tick, the target staying where it is
MoveStep ==
    /\ ticks_left > 0
    /\ rec_state' = [rec_state EXCEPT
                       !.position = _update_position_animation(rec_state,
                                                               settings)]
    /\ update_called' = position_returns(rec_state, settings)
    /\ ticks_left' = ticks_left - 1
    /\ UNCHANGED <<hostVars, guiVars, envVars, histVars, avVars, colorVars, legacyVars,
                   settings, closing, positions_cache,
                   current_screen_geometry, buf_state, animation_timer,
                   geometry_timer, painted, events_left, settings_left,
                   screen_left, sync_left>>

NextMove == MoveStep

SpecMove == InitMove /\ [][NextMove]_vars

\* a coordinate after a tick lies strictly nearer its target
Nearer(before, after, goal) == Abs(after - goal) < Abs(before - goal)

\* a coordinate after a tick lies between where it was and its target
NotPast(before, after, goal) ==
    \/ before <= after /\ after <= goal
    \/ goal <= after /\ after <= before

Apart == rec_state.position # rec_state.target_position

\* C23 as stated: with smooth movement on and the position away from its
\* target, a tick moves the position strictly closer to the target in both
\* coordinates.
C23_StrictlyCloserInBoth ==
    [][TickRan /\ settings.smooth_position /\ Apart
         => /\ Nearer(rec_state.position.x, rec_state'.position.x,
                      rec_state.target_position.x)
            /\ Nearer(rec_state.position.y, rec_state'.position.y,
                      rec_state.target_position.y)]_vars

\* C23, amended: with smooth movement on and a fixed non-null target, a
\* tick moves the position strictly closer to the target in every
\* coordinate in which the two differ, never past it, and leaves a
\* coordinate that already equals the target's as it is; the tick either
\* leaves a residual of at least 0.5 px in some coordinate or ends on the
\* target exactly, and MaxMoveTicks ticks always end on it. With smooth
\* movement off the position equals the target after one tick. The target
\* is left alone throughout.
C23_CloserWhereApart ==
    /\ [][TickRan /\ settings.smooth_position
            => LET p == rec_state.position
                   q == rec_state'.position
                   t == rec_state.target_position
               IN  /\ p.x # t.x => Nearer(p.x, q.x, t.x)
                   /\ p.y # t.y => Nearer(p.y, q.y, t.y)
                   /\ NotPast(p.x, q.x, t.x) /\ NotPast(p.y, q.y, t.y)
                   /\ \/ q = t
                      \/ Abs(q.x - t.x) >= POSITION_SNAP_THRESHOLD
                      \/ Abs(q.y - t.y) >= POSITION_SNAP_THRESHOLD]_vars
    /\ [][TickRan /\ ~settings.smooth_position
            => rec_state'.position = rec_state.target_position]_vars
    /\ [][rec_state'.target_position = rec_state.target_position]_vars
    /\ [](ticks_left = 0 => ~Apart)

\* a smooth movement along x alone (from one slot of a corner to the
\* other) has just snapped onto its target
C23_Witness ==
    /\ settings.smooth_position
    /\ ~Apart /\ update_called
    /\ ticks_left < MaxMoveTicks - 1
    /\ rec_state.position.y = 25 * PX
    /\ rec_state.position.x = 1855 * PX

\* ------------------------------------------------------------------------
\* The positions cache (checked under SpecCorners)
\* ------------------------------------------------------------------------
Cached(key) == positions_cache[key] # <<>>

\* C24: in every reachable state each entry of positions_cache, under its
\* key (corner, index), is the position _calculate_position computes
\* afresh for that corner and index from the current settings and the
\* current window geometry; a handled settings update leaves the cache
\* empty, and so does every step that changes the stored geometry.
C24_CacheCoherent ==
    /\ [](\A key \in CacheKeys :
            Cached(key)
              => positions_cache[key] =
                     <<fresh_position(settings, current_screen_geometry,
                                      key[1], key[2])>>)
    /\ [][settings_left' < settings_left /\ ~closing
            => positions_cache' = EmptyCache]_vars
    /\ [][current_screen_geometry' # current_screen_geometry
            => positions_cache' = EmptyCache]_vars

\* the settings were replaced (the buffer indicator now has a corner of its
\* own), the screen changed and the geometry check saw it; ticks have
\* since cached both indicators' slots again
C24_Witness ==
    /\ settings = QuickSettings
    /\ settings_left = 0 /\ screen_left = 0
    /\ isValid(current_screen_geometry) /\ current_screen_geometry = screen
    /\ Cached(<<"top-right", 0>>) /\ Cached(<<"bottom-left", 0>>)

\* ------------------------------------------------------------------------
\* SpecSave: buffer signals and ticks while the clock runs, with the flash
\* on save switched on or off
\* ------------------------------------------------------------------------
SaveSettings ==
    {QuickSettings, [QuickSettings EXCEPT !.flash_on_save = FALSE]}

InitSave ==
    /\ LoopRunning
    /\ AvIdle
    /\ ColorIdle
    /\ LegacyIdle
    /\ now = 1
    /\ screen = FullHD
    /\ \E s \in SaveSettings : WindowConstructed(s)
    /\ events_left = MaxEvents /\ ticks_left = MaxTicks
    /\ settings_left = 0 /\ screen_left = 0 /\ sync_left = 0

NextSave == HandleBuf \/ AnimationTimeout \/ ClockAdvances

SpecSave == InitSave /\ [][NextSave]_vars

\* a buffer signal was handled by an open window
BufHandled == events_left' < events_left /\ ~closing

\* C25: a handled buffer signal with saved = True sets active and saved to
\* True and saved_time to the current time, and it starts the flash
\* (flash_start_time = current time, flash_effect.target = 1.0) when
\* flash_on_save is set and leaves flash_start_time and flash_effect alone
\* when it is not; a handled buffer signal with saved = False sets active
\* to the value it carries and changes nothing else. Neither touches any
\* other field of the buffer state.
C25_SaveEvent ==
    [][\A sig \in BufSignals :
         BufHandled /\ on_buf_status_changed(sig[1], sig[2])
           => IF sig[2]
              THEN buf_state' =
                     [buf_state EXCEPT
                        !.active = TRUE, !.saved = TRUE, !.saved_time = now,
                        !.flash_start_time =
                            IF settings.flash_on_save THEN now ELSE @,
                        !.flash_effect.target =
                            IF settings.flash_on_save THEN ONE ELSE @]
              ELSE buf_state' = [buf_state EXCEPT !.active = sig[1]]]_vars

\* a save handled with flash_on_save off, after an earlier tick: saved and
\* stamped with the present time, no flash started
C25_Witness ==
    /\ ~settings.flash_on_save
    /\ buf_state.active /\ buf_state.saved
    /\ now > 1 /\ buf_state.saved_time = now
    /\ buf_state.flash_start_time = 0
    /\ buf_state.flash_effect.target = 0
    /\ ticks_left < MaxTicks /\ events_left < MaxEvents

\* ------------------------------------------------------------------------
\* The dimming of the buffer indicator (checked under Spec)
\* ------------------------------------------------------------------------
\* C26: after every tick buf_state.dim_effect.target is DIM_OPACITY (0.3)
\* exactly when recording is active and paused, and 1.0 otherwise.
C26_DimWhilePaused ==
    [][TickRan
         => buf_state'.dim_effect.target =
                IF rec_state'.active /\ rec_state'.paused THEN DIM_OPACITY
                ELSE ONE]_vars

\* recording was paused and then resumed: the target is back at 1.0 and
\* the dimmed buffer indicator is on its way up again
C26_Witness ==
    /\ rec_state.active /\ ~rec_state.paused
    /\ buf_state.dim_effect.target = ONE
    /\ buf_state.dim_effect.current < ONE
    /\ buf_state.dim_effect.current > DIM_OPACITY

\* ------------------------------------------------------------------------
\* The recording flags (checked under SpecBridge)
\* ------------------------------------------------------------------------
\* C27: in every reachable state rec_state.paused implies rec_state.active,
\* and so does every recording signal still waiting in the event queue,
\* whether a frontend event or _send_initial_state emitted it.
C27_PausedImpliesActive ==
    /\ rec_state.paused => rec_state.active
    /\ \A i \in 1..Len(queue) :
         queue[i].kind = "rec" /\ queue[i].b => queue[i].a

\* the window shows a paused recording it learnt of from
\* _send_initial_state alone, no frontend event having arrived
C27_Witness ==
    /\ rec_state.active /\ rec_state.paused
    /\ delivered = <<>>
    /\ sync_left < MaxHostCalls

\* ------------------------------------------------------------------------
\* The ranges of the animated values (checked under SpecQuiesce, whose
\* ticks carry every animation from start to rest)
\* ------------------------------------------------------------------------
InUnit(value) == 0 <= value.current /\ value.current <= ONE

C29_SaveRestartsWindow ==
    /\ [][BufHandled /\ buf_state.saved /\ on_buf_status_changed(TRUE, TRUE)
            => buf_state'.saved /\ buf_state'.saved_time = now]_vars
    /\ [][buf_state.saved /\ buf_state'.saved
            /\ buf_state'.saved_time # buf_state.saved_time
            => BufHandled /\ buf_state'.saved_time = now]_vars
    /\ [][buf_state.saved /\ ~buf_state'.saved
            => /\ TickRan
               /\ now - buf_state.saved_time > settings.checkmark_duration]_vars

\* two buffer signals were handled and ticks ran with the checkmark up;
\* the window of a save made at the start would be over, yet saved still
\* holds, stamped later and not yet expired
C29_Witness ==
    /\ buf_state.saved
    /\ events_left <= MaxEvents - 2
    /\ buf_state.saved_time > 1
    /\ now - 1 > settings.checkmark_duration
    /\ now - buf_state.saved_time <= settings.checkmark_duration
    /\ buf_state.checkmark_icon.current > MulDiv(ONE, SPEED, 100)
    /\ ticks_left = 0

\* ------------------------------------------------------------------------
\* The end of a flash (checked under SpecQuiesce)
\* ------------------------------------------------------------------------
Flashing == buf_state.flash_start_time > 0

FlashTimeUp ==
    now - buf_state.flash_start_time > settings.flash_duration

\* a tick of an open window, by either timer step
Ticked == (TimedTick \/ AnimationTimeout) /\ ~closing

\* C30: whenever flash_start_time > 0, the ticks that follow lead to a
\* state with flash_start_time = 0.0 and flash_effect.current = 0.0
\* exactly; every tick made once flash_duration has passed since
\* flash_start_time leaves flash_effect.target at 0.0; and flash_start_time
\* is reset only by such a tick, and only one that finds
\* flash_effect.current below the snap threshold.
C30_EveryFlashEnds ==
    /\ Flashing ~> (/\ buf_state.flash_start_time = 0
                    /\ buf_state.flash_effect.current = 0
                    /\ buf_state.flash_effect.target = 0)
    /\ [][Ticked /\ Flashing /\ FlashTimeUp
            => buf_state'.flash_effect.target = 0]_vars
    /\ [][Flashing /\ buf_state'.flash_start_time = 0
            => /\ Ticked /\ FlashTimeUp
               /\ buf_state.flash_effect.current < SNAP_THRESHOLD]_vars

\* a flash has come and gone: flash_on_save is set, the border of a save
\* that has expired is still fading out, and the flash is back at 0.0
\* with flash_start_time reset
C30_Witness ==
    /\ settings.flash_on_save
    /\ ~buf_state.saved
    /\ buf_state.save_border_width.current > 0
    /\ buf_state.flash_start_time = 0
    /\ buf_state.flash_effect.current = 0

\* ------------------------------------------------------------------------
\* OBS-Indicator-1-0-2-Ru.py: the host thread's callbacks and the overlay
\* thread's tkinter callbacks. The two threads share STATUS, CORNER and OFF
\* without a lock, so script_update and _loop are cut where one global has
\* been read or written and the next has not
\* ------------------------------------------------------------------------
LegacyEvents ==
    {"RECORDING_STARTING", "RECORDING_STOPPED", "REPLAY_BUFFER_SAVED"}

\* what obs_data_get_string(settings, "corner") may return
CornerInputs == Corners \cup {""}

\* STATUS after event_handler(evt)
status_after(status, evt) ==
    CASE evt = "RECORDING_STARTING" -> [status EXCEPT !.record = TRUE]
      [] evt = "RECORDING_STOPPED" -> [status EXCEPT !.record = FALSE]
      [] evt = "REPLAY_BUFFER_SAVED" -> [status EXCEPT !.buffer = TRUE]
      [] OTHER -> status

legacy_event_handler ==
    /\ legacy_left.events > 0
    /\ \E evt \in LegacyEvents :
         /\ STATUS' = status_after(STATUS, evt)
         /\ last_save' = IF evt = "REPLAY_BUFFER_SAVED" THEN legacy_now
                         ELSE last_save
    /\ legacy_left' = [legacy_left EXCEPT !.events = @ - 1]
    /\ UNCHANGED <<CORNER, OFF_global, tk, after_hide, update_call,
                   legacy_now>>
    /\ UNCHANGED <<hostVars, guiVars, winVars, envVars, histVars, leftVars,
                   avVars, colorVars>>

\* script_update up to and including CORNER = c
script_update_corner ==
    /\ update_call.pc = "idle"
    /\ legacy_left.updates > 0
    /\ legacy_left' = [legacy_left EXCEPT !.updates = @ - 1]
    /\ \E c \in CornerInputs :
         IF c \in Corners
         THEN /\ CORNER' = c
              /\ update_call' = [pc |-> "flag", c |-> c]
         ELSE UNCHANGED <<CORNER, update_call>>
    /\ UNCHANGED <<STATUS, OFF_global, tk, after_hide, legacy_now, last_save>>
    /\ UNCHANGED <<hostVars, guiVars, winVars, envVars, histVars, leftVars,
                   avVars, colorVars>>

\* script_update from `if c == "off"` to its end
script_update_flag ==
    /\ update_call.pc = "flag"
    /\ OFF_global' = (update_call.c = OFF)
    /\ update_call' = [pc |-> "idle", c |-> ""]
    /\ UNCHANGED <<STATUS, CORNER, tk, after_hide, legacy_now, last_save,
                   legacy_left>>
    /\ UNCHANGED <<hostVars, guiVars, winVars, envVars, histVars, leftVars,
                   avVars, colorVars>>

\* a tkinter callback is due and the overlay thread is back in mainloop
HideDue == \E due \in after_hide : due <= legacy_now

\* _loop from its start to the call of _update_position; a _hide_buffer due
\* by now was scheduled before this _loop was and runs first
_loop_enter ==
    /\ tk.pc = "idle" /\ tk.next_loop = legacy_now /\ ~HideDue
    /\ tk' = IF OFF_global
             THEN [tk EXCEPT !.image = "", !.next_loop = legacy_now + 1]
             ELSE [tk EXCEPT !.pc = "position"]
    /\ UNCHANGED <<STATUS, CORNER, OFF_global, after_hide, update_call,
                   legacy_now, last_save, legacy_left>>
    /\ UNCHANGED <<hostVars, guiVars, winVars, envVars, histVars, leftVars,
                   avVars, colorVars>>

\* the window's place for a corner other than "off": <<w, h, x, y>>
legacy_geometry(corner) ==
    LET w == SIZE[1]
        h == SIZE[2]
        sw == FullHD.w
        sh == FullHD.h
    IN  CASE corner = "top-left" -> <<w, h, MARGIN, MARGIN>>
          [] corner = "top-right" -> <<w, h, sw - w - MARGIN, MARGIN>>
          [] corner = "bottom-left" -> <<w, h, MARGIN, sh - h - MARGIN>>
          [] OTHER -> <<w, h, sw - w - MARGIN, sh - h - MARGIN>>

\* _update_position: the test of CORNER and, for a real corner, the rest
_update_position_test ==
    /\ tk.pc = "position"
    /\ tk' = IF CORNER = OFF THEN [tk EXCEPT !.pc = "set_off"]
             ELSE [tk EXCEPT !.pc = "show",
                             !.geometry = legacy_geometry(CORNER)]
    /\ UNCHANGED <<STATUS, CORNER, OFF_global, after_hide, update_call,
                   legacy_now, last_save, legacy_left>>
    /\ UNCHANGED <<hostVars, guiVars, winVars, envVars, histVars, leftVars,
                   avVars, colorVars>>

\* _update_position: OFF = True; return
_update_position_off ==
    /\ tk.pc = "set_off"
    /\ OFF_global' = TRUE
    /\ tk' = [tk EXCEPT !.pc = "show"]
    /\ UNCHANGED <<STATUS, CORNER, after_hide, update_call, legacy_now,
                   last_save, legacy_left>>
    /\ UNCHANGED <<hostVars, guiVars, winVars, envVars, histVars, leftVars,
                   avVars, colorVars>>

\* _loop after _update_position has returned
_loop_show ==
    /\ tk.pc = "show"
    /\ tk' = [tk EXCEPT !.pc = "idle",
                        !.image = IF STATUS.buffer THEN "buffer_img"
                                  ELSE IF STATUS.record THEN "record_img"
                                  ELSE "",
                        !.next_loop = legacy_now + 1]
    /\ after_hide' = IF STATUS.buffer
                     THEN after_hide \cup {legacy_now + HideDelay}
                     ELSE after_hide
    /\ UNCHANGED <<STATUS, CORNER, OFF_global, update_call, legacy_now,
                   last_save, legacy_left>>
    /\ UNCHANGED <<hostVars, guiVars, winVars, envVars, histVars, leftVars,
                   avVars, colorVars>>

\* one root.after(..., _hide_buffer) callback that is due runs
_hide_buffer ==
    /\ tk.pc = "idle"
    /\ \E due \in after_hide :
         /\ due <= legacy_now
         /\ after_hide' = after_hide \ {due}
    /\ STATUS' = [STATUS EXCEPT !.buffer = FALSE]
    /\ UNCHANGED <<CORNER, OFF_global, tk, update_call, legacy_now, last_save,
                   legacy_left>>
    /\ UNCHANGED <<hostVars, guiVars, winVars, envVars, histVars, leftVars,
                   avVars, colorVars>>

\* UPDATE_MS pass while mainloop has nothing due
LegacyClock ==
    /\ tk.pc = "idle" /\ tk.next_loop > legacy_now /\ ~HideDue
    /\ legacy_left.ticks > 0
    /\ legacy_now' = legacy_now + 1
    /\ legacy_left' = [legacy_left EXCEPT !.ticks = @ - 1]
    /\ UNCHANGED <<STATUS, CORNER, OFF_global, tk, after_hide, update_call,
                   last_save>>
    /\ UNCHANGED <<hostVars, guiVars, winVars, envVars, histVars, leftVars,
                   avVars, colorVars>>

\* the modern script at rest while the tkinter variant runs
ModernIdle ==
    /\ LoopRunning
    /\ AvIdle
    /\ ColorIdle
    /\ now = 1
    /\ screen = FullHD
    /\ WindowConstructed(DEFAULT_SETTINGS)
    /\ events_left = 0 /\ ticks_left = 0
    /\ settings_left = 0 /\ screen_left = 0 /\ sync_left = 0

\* ------------------------------------------------------------------------
\* SpecLegacySave: frontend events while the overlay thread loops and the
\* clock runs past the end of a save's display
\* ------------------------------------------------------------------------
InitLegacySave ==
    /\ ModernIdle
    /\ LegacyLoaded
    /\ legacy_left = [events |-> MaxLegacyEvents, updates |-> 0,
                      ticks |-> MaxLegacyTime]

NextLegacySave ==
    \/ legacy_event_handler
    \/ _loop_enter \/ _update_position_test \/ _loop_show
    \/ _hide_buffer \/ LegacyClock

SpecLegacySave == InitLegacySave /\ [][NextLegacySave]_vars

\* C31: STATUS['buffer'] is cleared only once RED_DOT_PAUSE seconds have
\* passed since the last REPLAY_BUFFER_SAVED event: no _hide_buffer, and
\* none scheduled for an earlier save, ends a save's display sooner.
C31_SaveShownFiveSeconds ==
    [][STATUS.buffer /\ ~STATUS'.buffer
         => legacy_now - last_save >= HideDelay]_vars

\* ------------------------------------------------------------------------
\* SpecLegacyCorner: the host thread calls script_update while the overlay
\* thread runs _loop
\* ------------------------------------------------------------------------
InitLegacyCorner ==
    /\ ModernIdle
    /\ LegacyLoaded
    /\ legacy_left = [events |-> 0, updates |-> MaxScriptUpdates,
                      ticks |-> MaxLoops]

NextLegacyCorner ==
    \/ script_update_corner \/ script_update_flag
    \/ _loop_enter \/ _update_position_test \/ _update_position_off
    \/ _loop_show \/ LegacyClock

SpecLegacyCorner == InitLegacyCorner /\ [][NextLegacyCorner]_vars

\* neither script_update nor _update_position is part-way through
NoneMidway ==
    /\ update_call.pc = "idle"
    /\ tk.pc \notin {"position", "set_off"}

\* C32: whenever neither script_update nor _update_position is part-way
\* through, OFF is True if and only if CORNER is 'off'.
C32_OffIffCornerOff ==
    NoneMidway => (OFF_global <=> CORNER = OFF)

============================================================================
